---------------------------- MODULE Spec2Model ----------------------------
(***************************************************************************)
(* Model of the Vertica connection pool of src/mcp_vertica/connection.py   *)
(* (class VerticaConnectionPool), of the configuration and the permission  *)
(* decision of the same file (VerticaConfig.from_env,                      *)
(* VerticaConnectionManager.is_operation_allowed), and of the statement    *)
(* classifier and the two query handlers that ask for that decision        *)
(* (mcp.py: _extract_operation_type, _ensure_permissions, execute_query;   *)
(* rest.py: api_query), and of the query limiter of mcp.py (QueryLimiter). *)
(*                                                                         *)
(* Every public method of the pool runs entirely under self.lock (lines    *)
(* 261, 310, 356), so a method call is one atomic step, except that a      *)
(* get_connection which finds the queue empty stays in Queue.get(timeout=5)*)
(* with the lock held until the timeout ends it.  A connection is an       *)
(* integer identity: 1, 2, ... in the order vertica_python.connect()       *)
(* returned them; Foreign is a connection object this pool never created.  *)
(* Whether a call of the connect primitive succeeds is an input of the     *)
(* step that makes the call.                                               *)
(***************************************************************************)
EXTENDS Naturals, Integers, Sequences, FiniteSets, TLC

\* ---- bounds of the model ------------------------------------------------
\* config.connection_limit of the pool under study
ConnectionLimit == 2
\* how many connections vertica_python.connect() may return in one behaviour
MaxConn == 6

\* ---- program constants --------------------------------------------------
\* self.max_rebuild_attempts
max_rebuild_attempts == 3

Foreign == 0
Conns == 1..MaxConn

VARIABLES
    constructed,              \* a VerticaConnectionPool object exists
    pool,                     \* self.pool: the FIFO queue of free connections
    active_connections,       \* self.active_connections
    checked_out_connections,  \* self.checked_out_connections
    rebuild_attempts,         \* self.rebuild_attempts
    closed,                   \* the connections whose closed() returns True
    created,                  \* number of connections connect() has returned
    lock,                     \* self.lock: "free" or "held"
    waiting,                  \* a get_connection call is inside
                              \* self.pool.get(timeout=5)
    last                      \* the latest call (method, connection passed or
                              \* returned, outcome), the method and outcome of
                              \* the call before it, and a bit that every call
                              \* flips

pool_vars == <<constructed, pool, active_connections, checked_out_connections,
               rebuild_attempts, closed, created, lock, waiting, last>>

VARIABLES
    env,                      \* os.environ: the variables from_env reads, and
                              \* READ_ONLY
    config,                   \* manager.config, a VerticaConfig
    allowed                   \* the latest is_operation_allowed call: schema,
                              \* operation, returned value

perm_vars == <<env, config, allowed>>

VARIABLES
    query,                    \* the SQL text of a request, as sqlparse parses
                              \* it: a sequence of statements
    classified,               \* what _extract_operation_type(query) returned
    request                   \* the latest request: handler, outcome, the
                              \* is_operation_allowed calls made (schema,
                              \* operation), number of statements executed

sql_vars == <<query, classified, request>>

VARIABLES
    limiter,                  \* query_limiter: the value of _sem, _acquired
    tasks,                    \* the requests that use query_limiter: where
                              \* each one is, whether its statement was
                              \* executed, when its wait has to end
    now                       \* the event loop's clock, in seconds

limiter_vars == <<limiter, tasks, now>>

VARIABLES
    trace                     \* the calls a handler made on the manager, the
                              \* connection and the cursor, and how it ended

svc_vars == <<limiter_vars, trace>>

VARIABLES
    environ,                  \* os.environ: MCP_HTTP_TOKEN and
                              \* MCP_HEALTH_REQUIRE_READY
    _COMPONENTS,              \* health._COMPONENTS: the recorded state of
                              \* each named component
    response,                 \* the latest HTTP exchange: the request, the
                              \* handler that ran, the status and the body
    manager                   \* the VerticaConnectionManager, the pool
                              \* objects it built and the connections made

app_vars == <<environ, _COMPONENTS, response, manager>>

\* what the pool methods leave alone
other_vars == <<perm_vars, sql_vars, svc_vars, app_vars>>

Range(q) == {q[i] : i \in 1..Len(q)}

\* The i-th .. j-th connection returned by connect(), as a queue content.
FreshSeq(from, n) == [i \in 1..n |-> from + i]

\* The fields of the pool object (and of the connections) as one value, so
\* that the private helpers can be composed the way the code calls them.
Self ==
    [pool |-> pool,
     active_connections |-> active_connections,
     checked_out_connections |-> checked_out_connections,
     rebuild_attempts |-> rebuild_attempts,
     closed |-> closed,
     created |-> created,
     raised |-> FALSE]

\* A pool that never sees a closed connection (the closed() checks of lines
\* 280 and 322 left out).
conn_closed_never(s, conn) == FALSE

\* conn.closed()
conn_closed(s, conn) == conn \in s.closed

\* A release that accepts every connection (the guard of line 311 left out).
is_checked_out_always(s, conn) == TRUE

\* `conn not in self.checked_out_connections` negated (line 311)
is_checked_out(s, conn) == conn \in s.checked_out_connections

\* A rebuild that forgets to clear the checked-out set (line 173 left out).
_initialize_pool_keeps_checked_out(s, k) ==
    LET closed1 == s.closed \cup s.checked_out_connections \cup Range(s.pool)
        fresh   == FreshSeq(s.created, k)
    IN  IF k >= ConnectionLimit
        THEN [s EXCEPT !.pool = FreshSeq(s.created, ConnectionLimit),
                       !.active_connections = 0,
                       !.closed = closed1,
                       !.created = s.created + ConnectionLimit,
                       !.rebuild_attempts = 0,
                       !.raised = FALSE]
        ELSE [s EXCEPT !.pool = <<>>,
                       !.active_connections = 0,
                       !.closed = closed1 \cup Range(fresh),
                       !.created = s.created + k,
                       !.raised = TRUE]

\* A failed initialization that also resets the rebuild counter.
_initialize_pool_resets_on_failure(s, k) ==
    LET closed1 == s.closed \cup s.checked_out_connections \cup Range(s.pool)
        fresh   == FreshSeq(s.created, k)
    IN  [s EXCEPT !.pool = IF k >= ConnectionLimit
                           THEN FreshSeq(s.created, ConnectionLimit)
                           ELSE <<>>,
                  !.checked_out_connections = {},
                  !.active_connections = 0,
                  !.closed = IF k >= ConnectionLimit
                             THEN closed1
                             ELSE closed1 \cup Range(fresh),
                  !.created = IF k >= ConnectionLimit
                              THEN s.created + ConnectionLimit
                              ELSE s.created + k,
                  !.rebuild_attempts = 0,
                  !.raised = k < ConnectionLimit]

\* _initialize_pool: k connect() calls succeed before one raises;
\* k = ConnectionLimit means that none raises.
_initialize_pool(s, k) ==
    LET \* lines 164-191: close the checked-out and the idle connections
        closed1 == s.closed \cup s.checked_out_connections \cup Range(s.pool)
        fresh   == FreshSeq(s.created, k)
    IN  IF k >= ConnectionLimit
        THEN [s EXCEPT !.pool = FreshSeq(s.created, ConnectionLimit),
                       !.checked_out_connections = {},
                       !.active_connections = 0,
                       !.closed = closed1,
                       !.created = s.created + ConnectionLimit,
                       !.rebuild_attempts = 0,
                       !.raised = FALSE]
        ELSE \* lines 202-221: close what was created, empty the queue, raise
             [s EXCEPT !.pool = <<>>,
                       !.checked_out_connections = {},
                       !.active_connections = 0,
                       !.closed = closed1 \cup Range(fresh),
                       !.created = s.created + k,
                       !.raised = TRUE]

\* _handle_rebuild: the exception of _initialize_pool is logged, not raised.
_handle_rebuild(s, k) ==
    IF s.rebuild_attempts >= max_rebuild_attempts
    THEN s
    ELSE [_initialize_pool([s EXCEPT !.rebuild_attempts = @ + 1], k)
            EXCEPT !.raised = FALSE]

\* Queue.put on the bounded queue: with the queue full it blocks for ever
\* (no timeout is given), and the caller holds the pool lock.
QueueFull(s) == Len(s.pool) >= ConnectionLimit

\* The lock is held by a call that never returns.
Stuck == last.result = "blocked"

\* `with self.lock:` can be entered.
LockFree == lock = "free" /\ ~Stuck

Commit(s) ==
    /\ pool' = s.pool
    /\ active_connections' = s.active_connections
    /\ checked_out_connections' = s.checked_out_connections
    /\ rebuild_attempts' = s.rebuild_attempts
    /\ closed' = s.closed
    /\ created' = s.created

Called(op, conn, result) ==
    last' = [op |-> op, conn |-> conn, result |-> result,
             prev_op |-> last.op, prev_result |-> last.result,
             tick |-> 1 - last.tick]

\* VerticaConnectionPool(config): k connect() calls succeed before one raises.
__init__(k) ==
    /\ ~constructed
    /\ created + k <= MaxConn
    /\ LET s0 == [Self EXCEPT !.pool = <<>>, !.active_connections = 0,
                              !.checked_out_connections = {},
                              !.rebuild_attempts = 0]
           s  == _initialize_pool(s0, k)
       IN  /\ Commit(s)
           /\ constructed' = ~s.raised
           /\ Called("__init__", Foreign, IF s.raised THEN "connect_error" ELSE "ok")

\* get_connection(): `ok` is the outcome of the connect() call that replaces
\* a closed connection, k the number of connect() calls of the rebuild that
\* succeed before one raises.
get_connection(ok, k) ==
    /\ constructed
    /\ \/ \* line 262: every slot is checked out
          /\ LockFree
          /\ active_connections >= ConnectionLimit
          /\ Commit(Self)
          /\ Called("get_connection", Foreign, "exhausted")
          /\ UNCHANGED <<lock, waiting>>
       \/ \* lines 261, 268: the queue is empty, Queue.get(timeout=5) blocks
          \* inside `with self.lock`
          /\ LockFree
          /\ active_connections < ConnectionLimit
          /\ pool = <<>>
          /\ lock' = "held"
          /\ waiting' = TRUE
          /\ Commit(Self)
          /\ UNCHANGED last
       \/ \* lines 269-271: the 5 seconds are over, Queue.get raises Empty
          /\ waiting
          /\ lock' = "free"
          /\ waiting' = FALSE
          /\ Commit(Self)
          /\ Called("get_connection", Foreign, "timeout")
       \/ \* lines 280, 298-302: a healthy connection is handed out
          /\ LockFree
          /\ UNCHANGED <<lock, waiting>>
          /\ active_connections < ConnectionLimit
          /\ pool # <<>>
          /\ ~conn_closed(Self, Head(pool))
          /\ Commit([Self EXCEPT
                 !.pool = Tail(pool),
                 !.active_connections = @ + 1,
                 !.checked_out_connections = @ \cup {Head(pool)}])
          /\ Called("get_connection", Head(pool), "ok")
       \/ \* lines 280-289, 298-302: a closed connection is replaced
          /\ LockFree
          /\ UNCHANGED <<lock, waiting>>
          /\ active_connections < ConnectionLimit
          /\ pool # <<>>
          /\ conn_closed(Self, Head(pool))
          /\ ok
          /\ created + 1 <= MaxConn
          /\ Commit([Self EXCEPT
                 !.pool = Tail(pool),
                 !.created = @ + 1,
                 !.active_connections = @ + 1,
                 !.checked_out_connections = @ \cup {created + 1}])
          /\ Called("get_connection", created + 1, "replaced")
       \/ \* lines 290-296, 303-306: the replacement cannot be created
          /\ LockFree
          /\ UNCHANGED <<lock, waiting>>
          /\ active_connections < ConnectionLimit
          /\ pool # <<>>
          /\ conn_closed(Self, Head(pool))
          /\ ~ok
          /\ created + k <= MaxConn
          /\ Commit(_handle_rebuild([Self EXCEPT !.pool = Tail(pool)], k))
          /\ Called("get_connection", Foreign, "connect_error")

\* release_connection(conn): `ok` is the outcome of the connect() call that
\* replaces a closed connection.
release_connection(conn, ok) ==
    /\ constructed
    /\ LockFree
    /\ \/ \* lines 311-317: not checked out, warn and return
          /\ ~is_checked_out(Self, conn)
          /\ Commit(Self)
          /\ Called("release_connection", conn, "ignored")
       \/ \* lines 320, 333-335, 347-348: a healthy connection goes back
          /\ is_checked_out(Self, conn)
          /\ ~conn_closed(Self, conn)
          /\ LET s1 == [Self EXCEPT !.checked_out_connections = @ \ {conn}]
             IN  IF QueueFull(s1)
                 THEN /\ Commit(s1)
                      /\ Called("release_connection", conn, "blocked")
                 ELSE /\ Commit([s1 EXCEPT
                             !.pool = Append(@, conn),
                             !.active_connections = IF @ > 0 THEN @ - 1 ELSE @])
                      /\ Called("release_connection", conn, "returned")
       \/ \* lines 320-328, 347-348: a closed connection is replaced
          /\ is_checked_out(Self, conn)
          /\ conn_closed(Self, conn)
          /\ ok
          /\ created + 1 <= MaxConn
          /\ LET s1 == [Self EXCEPT !.checked_out_connections = @ \ {conn},
                                    !.created = @ + 1]
             IN  IF QueueFull(s1)
                 THEN /\ Commit(s1)
                      /\ Called("release_connection", conn, "blocked")
                 ELSE /\ Commit([s1 EXCEPT
                             !.pool = Append(@, created + 1),
                             !.active_connections = IF @ > 0 THEN @ - 1 ELSE @])
                      /\ Called("release_connection", conn, "replaced")
       \/ \* lines 320-332, 347-348: the replacement cannot be created
          /\ is_checked_out(Self, conn)
          /\ conn_closed(Self, conn)
          /\ ~ok
          /\ Commit([Self EXCEPT
                 !.checked_out_connections = @ \ {conn},
                 !.active_connections = IF @ > 0 THEN @ - 1 ELSE @])
          /\ Called("release_connection", conn, "dropped")

\* A close_all that only drains the free queue (lines 364-375 left out).
close_all_free_only ==
    /\ constructed
    /\ LockFree
    /\ Commit([Self EXCEPT !.closed = @ \cup Range(pool), !.pool = <<>>])
    /\ Called("close_all", Foreign, "ok")

\* close_all()
close_all ==
    /\ constructed
    /\ LockFree
    /\ Commit([Self EXCEPT
           !.closed = @ \cup Range(pool) \cup checked_out_connections,
           !.pool = <<>>,
           !.checked_out_connections = {},
           !.active_connections = 0])
    /\ Called("close_all", Foreign, "ok")

\* The session of a connection the pool knows ends (the server drops it, or
\* its holder closes it): from now on conn.closed() returns True.
connection_lost(conn) ==
    /\ constructed
    /\ conn \in (Range(pool) \cup checked_out_connections) \ closed
    /\ closed' = closed \cup {conn}
    /\ UNCHANGED <<constructed, pool, active_connections,
                   checked_out_connections, rebuild_attempts, created, lock,
                   waiting, last>>

PoolInit ==
    /\ constructed = FALSE
    /\ pool = <<>>
    /\ active_connections = 0
    /\ checked_out_connections = {}
    /\ rebuild_attempts = 0
    /\ closed = {}
    /\ created = 0
    /\ lock = "free"
    /\ waiting = FALSE
    /\ last = [op |-> "none", conn |-> Foreign, result |-> "ok",
               prev_op |-> "none", prev_result |-> "ok", tick |-> 0]

Construct ==
    /\ \E k \in 0..ConnectionLimit : __init__(k)
    /\ UNCHANGED <<lock, waiting>>
    /\ UNCHANGED other_vars

Acquire ==
    /\ \E ok \in BOOLEAN, k \in 0..ConnectionLimit : get_connection(ok, k)
    /\ UNCHANGED constructed
    /\ UNCHANGED other_vars

Release ==
    /\ \E conn \in 0..created, ok \in BOOLEAN : release_connection(conn, ok)
    /\ UNCHANGED <<constructed, lock, waiting>>
    /\ UNCHANGED other_vars

CloseAll ==
    /\ close_all
    /\ UNCHANGED <<constructed, lock, waiting>>
    /\ UNCHANGED other_vars

ConnectionLost ==
    /\ \E conn \in Conns : connection_lost(conn)
    /\ UNCHANGED other_vars

\* ---- configuration and permissions ---------------------------------------
\* os.getenv gives None for this variable
Unset == "<unset>"

\* class OperationType
OperationType == {"SELECT", "INSERT", "UPDATE", "DELETE", "DDL"}

\* the attribute names of SchemaPermissions, in the order from_env reads
\* SCHEMA_SELECT_PERMISSIONS .. SCHEMA_DDL_PERMISSIONS
perm_types == {"select", "insert", "update", "delete", "ddl"}

\* str.strip() and str.lower() on the strings of this model
Strip(s) == IF s = "Reporting " THEN "Reporting" ELSE s

Lower(s) ==
    CASE s = "Reporting" -> "reporting"
      [] s = "True" -> "true"
      [] OTHER -> s

\* how many schema:value pairs the SCHEMA_*_PERMISSIONS variables hold together
MaxPairs == 1

\* the schema part and the value part of a pair, as written
EnvSchemas == {"Reporting ", "default", ""}
EnvValues == {"True", "false"}

\* the schema argument of is_operation_allowed
QuerySchemas == {"Reporting", "default", "", "sales"}

\* An environment: allow[t] is ALLOW_<T>_OPERATION, unset or holding the value
\* that is not its default; pairs[t] are the schema:value pairs of
\* SCHEMA_<T>_PERMISSIONS in their order, `entries` being the pairs of all
\* five variables, each with the variable it stands in.
EnvOf(set, entries, read_only) ==
    [allow |-> [t \in perm_types |->
                   IF t \in set
                   THEN (IF t = "select" THEN "false" ELSE "True")
                   ELSE Unset],
     pairs |-> [t \in perm_types |->
                   SelectSeq(entries, LAMBDA e : e.type = t)],
     READ_ONLY |-> read_only]

EmptyEnv == EnvOf({}, <<>>, Unset)

SeqsUpTo(S, n) == UNION {[1..m -> S] : m \in 0..n}

\* the environments that set variables of the operations in `types` only
Envs(types, read_only_values) ==
    {EnvOf(set, entries, r) :
        set \in SUBSET types,
        entries \in SeqsUpTo([type : types, schema : EnvSchemas,
                              value : EnvValues], MaxPairs),
        r \in read_only_values}

getenv(e, t, default) == IF e.allow[t] = Unset THEN default ELSE e.allow[t]

\* SchemaPermissions()
SchemaPermissions ==
    [select |-> FALSE, insert |-> FALSE, update |-> FALSE, delete |-> FALSE,
     ddl |-> FALSE]

\* from_env, lines 74-93: the pairs of one SCHEMA_*_PERMISSIONS variable
RECURSIVE parse_pairs(_, _, _)
parse_pairs(schema_permissions, pairs, perm_type) ==
    IF pairs = <<>>
    THEN schema_permissions
    ELSE LET schema == Lower(Strip(Head(pairs).schema))
             old    == IF schema \in DOMAIN schema_permissions
                       THEN schema_permissions[schema]
                       ELSE SchemaPermissions
             new    == [old EXCEPT ![perm_type] =
                           (Lower(Strip(Head(pairs).value)) = "true")]
         IN  parse_pairs([x \in DOMAIN schema_permissions \cup {schema} |->
                             IF x = schema THEN new
                             ELSE schema_permissions[x]],
                         Tail(pairs), perm_type)

\* VerticaConfig.from_env(); READ_ONLY is not read
from_env(e) ==
    LET none == [x \in {} |-> SchemaPermissions]
        sp1  == parse_pairs(none, e.pairs["select"], "select")
        sp2  == parse_pairs(sp1, e.pairs["insert"], "insert")
        sp3  == parse_pairs(sp2, e.pairs["update"], "update")
        sp4  == parse_pairs(sp3, e.pairs["delete"], "delete")
        sp5  == parse_pairs(sp4, e.pairs["ddl"], "ddl")
    IN  [allow_select |-> Lower(getenv(e, "select", "true")) = "true",
         allow_insert |-> Lower(getenv(e, "insert", "false")) = "true",
         allow_update |-> Lower(getenv(e, "update", "false")) = "true",
         allow_delete |-> Lower(getenv(e, "delete", "false")) = "true",
         allow_ddl |-> Lower(getenv(e, "ddl", "false")) = "true",
         schema_permissions |-> sp5]

\* The permission decision without the per-schema lookup (lines 412-427 left
\* out).
is_operation_allowed_global_only(cfg, schema, operation) ==
    CASE operation = "SELECT" -> cfg.allow_select
      [] operation = "INSERT" -> cfg.allow_insert
      [] operation = "UPDATE" -> cfg.allow_update
      [] operation = "DELETE" -> cfg.allow_delete
      [] operation = "DDL" -> cfg.allow_ddl
      [] OTHER -> FALSE

\* VerticaConnectionManager.is_operation_allowed, with self.config = cfg
is_operation_allowed(cfg, schema, operation) ==
    LET schema_perms == cfg.schema_permissions
        name         == Lower(schema)
    IN  IF name \in DOMAIN schema_perms /\ operation \in OperationType
        THEN CASE operation = "SELECT" -> schema_perms[name].select
               [] operation = "INSERT" -> schema_perms[name].insert
               [] operation = "UPDATE" -> schema_perms[name].update
               [] operation = "DELETE" -> schema_perms[name].delete
               [] operation = "DDL" -> schema_perms[name].ddl
        ELSE CASE operation = "SELECT" -> cfg.allow_select
               [] operation = "INSERT" -> cfg.allow_insert
               [] operation = "UPDATE" -> cfg.allow_update
               [] operation = "DELETE" -> cfg.allow_delete
               [] operation = "DDL" -> cfg.allow_ddl
               [] OTHER -> FALSE

\* no is_operation_allowed call was made
NoCall == [schema |-> "", operation |-> "None", result |-> FALSE]

\* ---- the statement classifier (mcp.py) ------------------------------------
\* the value of an Optional that is None
None == "None"

\* _extract_operation_type has not been called
Unclassified == "unclassified"

\* how many top-level tokens the first statement of a classified text has
MaxTokens == 3

\* A top-level token of a parsed statement: its sqlparse ttype and its text.
\* A group (Identifier, Parenthesis, ...) has ttype None.
Tok(ttype, value) == [ttype |-> ttype, value |-> value]

\* the tokens sqlparse's lexer makes of these words: WITH is Keyword.CTE,
\* SELECT/INSERT/UPDATE/DELETE/MERGE are Keyword.DML, CREATE/ALTER/DROP are
\* Keyword.DDL, TRUNCATE and BEGIN are Keyword
tWITH == Tok("Keyword.CTE", "WITH")
tSELECT == Tok("Keyword.DML", "SELECT")
tDELETE == Tok("Keyword.DML", "delete")
tMERGE == Tok("Keyword.DML", "MERGE")
tCREATE == Tok("Keyword.DDL", "CREATE")
tTRUNCATE == Tok("Keyword", "TRUNCATE")
tBEGIN == Tok("Keyword", "BEGIN")
tFROM == Tok("Keyword", "FROM")
tWS == Tok("Text.Whitespace", " ")
tComment == Tok("Comment.Single", "-- c")
tCte == Tok(None, "x AS (SELECT 1)")
tName == Tok("Name", "x")

Tokens == {tWITH, tSELECT, tDELETE, tMERGE, tCREATE, tTRUNCATE, tBEGIN, tWS,
           tComment, tCte, tName}

\* str.upper() on the token texts of this model
Upper(s) ==
    CASE s = "delete" -> "DELETE"
      [] s = "x" -> "X"
      [] s = "x AS (SELECT 1)" -> "X AS (SELECT 1)"
      [] s = "-- c" -> "-- C"
      [] OTHER -> s

\* `ttype in T.Keyword`: T.Keyword or one of its sub-types
in_Keyword(ttype) ==
    ttype \in {"Keyword", "Keyword.CTE", "Keyword.DML", "Keyword.DDL"}

\* token.normalized: the upper-cased text of a keyword, the text of another
\* token
normalized(token) ==
    IF in_Keyword(token.ttype) THEN Upper(token.value) ELSE token.value

\* Token.match(ttype, value): `self.ttype is ttype`, then the normalized text
match(token, ttype, value) ==
    /\ token.ttype = ttype
    /\ normalized(token) = value

\* token.is_whitespace / a comment, which token_next(skip_ws, skip_cm) skips
skipped(token) == token.ttype \in {"Text.Whitespace", "Comment.Single"}

\* statement.token_next(-1, skip_ws=True, skip_cm=True): the index, 0 if none
token_next(tokens) ==
    IF \E i \in 1..Len(tokens) : ~skipped(tokens[i])
    THEN CHOOSE i \in 1..Len(tokens) :
             /\ ~skipped(tokens[i])
             /\ \A j \in 1..(i - 1) : skipped(tokens[j])
    ELSE 0

\* statement.token_next_by(t=(ttype,)): the index, 0 if none
token_next_by(tokens, ttype) ==
    IF \E i \in 1..Len(tokens) : tokens[i].ttype = ttype
    THEN CHOOSE i \in 1..Len(tokens) :
             /\ tokens[i].ttype = ttype
             /\ \A j \in 1..(i - 1) : tokens[j].ttype # ttype
    ELSE 0

\* mapping.get(keyword), lines 125-135
mapping(keyword) ==
    CASE keyword = "SELECT" -> "SELECT"
      [] keyword = "INSERT" -> "INSERT"
      [] keyword = "UPDATE" -> "UPDATE"
      [] keyword = "DELETE" -> "DELETE"
      [] keyword \in {"CREATE", "ALTER", "DROP", "TRUNCATE"} -> "DDL"
      [] OTHER -> None

\* line 124
keyword_of(token) ==
    IF in_Keyword(token.ttype) THEN normalized(token) ELSE Upper(token.value)

\* _extract_operation_type(query): only statements[0] is looked at
_extract_operation_type(q) ==
    IF q = <<>>
    THEN None
    ELSE LET tokens == q[1].tokens
             first  == token_next(tokens)
         IN  IF first = 0
             THEN None
             ELSE IF match(tokens[first], "Keyword", "WITH")
                  THEN IF token_next_by(tokens, "Keyword.DML") = 0
                       THEN None
                       ELSE mapping(keyword_of(
                                tokens[token_next_by(tokens, "Keyword.DML")]))
                  ELSE mapping(keyword_of(tokens[first]))

\* _extract_schemas(query): the schemas that qualify a name in any statement
\* of the text, lower-cased
_extract_schemas(q) ==
    {Lower(s) : s \in UNION {q[i].schemas : i \in 1..Len(q)}}

\* ---- the query handlers (mcp.py, rest.py) --------------------------------
\* how many statements the SQL text of a request has
MaxBatch == 2

\* "SELECT 1", "delete FROM Reporting.orders", "delete FROM orders", "BEGIN":
\* the top-level tokens and the schemas that qualify a name
sSelect ==
    [tokens |-> <<tSELECT, tWS, Tok("Literal.Number.Integer", "1")>>,
     schemas |-> {}]
sDelete ==
    [tokens |-> <<tDELETE, tWS, tFROM, tWS, Tok(None, "Reporting.orders")>>,
     schemas |-> {"Reporting"}]
sDeleteBare ==
    [tokens |-> <<tDELETE, tWS, tFROM, tWS, Tok(None, "orders")>>,
     schemas |-> {}]
sBegin == [tokens |-> <<tBEGIN>>, schemas |-> {}]

Statements == {sSelect, sDelete, sDeleteBare, sBegin}

\* `schemas or {sentinel}`
schemas_or(schemas, sentinel) == IF schemas = {} THEN {sentinel} ELSE schemas

\* no request was handled
NoRequest == [path |-> "none", outcome |-> "none", checked |-> {},
              executed |-> 0]

\* _execute_sql / the execution part of api_query: `executed` statements
\* complete, an exception ends the rest
Executed(path, checked, executed, raised) ==
    request' = [path |-> path, outcome |-> raised, checked |-> checked,
                executed |-> executed]

\* execute_query(ctx, query): `admitted` is whether query_limiter lets the
\* request in, k the number of statements of the text that the database
\* executes before one raises (k = Len(query): none raises).
execute_query(admitted, k) ==
    LET op      == _extract_operation_type(query)
        schemas == schemas_or(_extract_schemas(query), "")
        denied  == {s \in schemas : ~is_operation_allowed(config, s, op)}
        run(checked) ==
            IF admitted
            THEN Executed("execute_query", checked, k,
                          IF k = Len(query) THEN "ok" ELSE "error")
            ELSE Executed("execute_query", checked, 0,
                          "TooManyRequestsError")
    IN  /\ request = NoRequest
        /\ k <= Len(query)
        /\ \/ \* line 346: `if not op: return`
              /\ op = None
              /\ run({})
           \/ \* lines 348-351: the first schema that is refused raises
              /\ op # None
              /\ \E d \in denied, before \in SUBSET (schemas \ denied) :
                     Executed("execute_query",
                              {<<s, op>> : s \in before \cup {d}}, 0,
                              "PermissionError")
           \/ \* lines 348-351: every schema is allowed
              /\ op # None
              /\ denied = {}
              /\ run({<<s, op>> : s \in schemas})

\* api_query, lines 54-63, for one statement: its operation, the schemas it is
\* checked for and those of them that are refused
stmt_check(stmt) ==
    LET op      == _extract_operation_type(<<stmt>>)
        schemas == schemas_or(_extract_schemas(<<stmt>>), "default")
    IN  [op |-> op,
         schemas |-> IF op = None THEN {} ELSE schemas,
         denied |-> IF op = None THEN {}
                    ELSE {s \in schemas :
                             ~is_operation_allowed(config, Lower(s), op)}]

stmt_checked(stmt) ==
    {<<Lower(s), stmt_check(stmt).op>> : s \in stmt_check(stmt).schemas}

\* ---- what a handler calls on the connection (rest.py 65-95, seed_itsm) ----
\* no handler ran
NoRun == [handler |-> "none", calls |-> <<>>, outcome |-> "none"]

\* the calls of api_query's try block (lines 67-86) when none raises: every
\* statement is executed, then fetched if cur.description is set (desc[i]),
\* else committed
api_query_try(n, desc) ==
    [j \in 1..(2 + 2 * n) |->
        IF j = 1 THEN [op |-> "get_connection", stmt |-> 0]
        ELSE IF j = 2 THEN [op |-> "cursor", stmt |-> 0]
        ELSE IF j % 2 = 1 THEN [op |-> "execute", stmt |-> (j - 1) \div 2]
        ELSE [op |-> IF desc[(j - 2) \div 2] THEN "fetchall" ELSE "commit",
              stmt |-> (j - 2) \div 2]]

\* the calls of synthesize_and_load's try block (lines 97-235) when none
\* raises: n statements (execute, copy), one commit at the end
synthesize_and_load_try(n) ==
    [j \in 1..(3 + n) |->
        IF j = 1 THEN [op |-> "get_connection", stmt |-> 0]
        ELSE IF j = 2 THEN [op |-> "cursor", stmt |-> 0]
        ELSE IF j = 3 + n THEN [op |-> "commit", stmt |-> 0]
        ELSE [op |-> "execute", stmt |-> j - 2]]

\* the try block up to the call that raises, the f-th (f = 0: none raises)
tried(ops, f) ==
    [j \in 1..(IF f = 0 THEN Len(ops) ELSE f) |->
        [op |-> ops[j].op, stmt |-> ops[j].stmt, raised |-> j = f]]

\* An `except` block that does not roll back.
except_calls_no_rollback(conn, rollback_raises) == <<>>

\* `except Exception: if conn: conn.rollback()` (rest.py 88-90, seed_itsm
\* 238-243)
except_calls(conn, rollback_raises) ==
    IF conn
    THEN <<[op |-> "rollback", stmt |-> 0, raised |-> rollback_raises]>>
    ELSE <<>>

\* A `finally` block that only closes the cursor.
finally_calls_close_only(cur, conn) ==
    IF cur THEN <<[op |-> "close", stmt |-> 0, raised |-> FALSE]>> ELSE <<>>

\* `finally: if cur: cur.close(); if conn: mgr.release_connection(conn)`
\* (rest.py 91-95, seed_itsm 245-249); Cursor.close() of vertica_python does
\* not raise for a cursor without prepared statements
finally_calls(cur, conn) ==
    (IF cur THEN <<[op |-> "close", stmt |-> 0, raised |-> FALSE]>>
     ELSE <<>>)
    \o (IF conn
        THEN <<[op |-> "release_connection", stmt |-> 0, raised |-> FALSE]>>
        ELSE <<>>)

\* try / except / finally around `ops`: conn is set once get_connection has
\* returned, cur once conn.cursor() has
handler_calls(ops, f, rollback_raises) ==
    tried(ops, f)
    \o (IF f = 0 THEN <<>> ELSE except_calls(f # 1, rollback_raises))
    \o finally_calls(f \notin {1, 2}, f # 1)

\* the statements whose execute call returned
executed_of(calls) ==
    Cardinality({j \in 1..Len(calls) :
                    calls[j].op = "execute" /\ ~calls[j].raised})

\* api_query(body): the f-th call of the try block raises (f = 0: none),
\* desc[i] is whether statement i has a result set, rollback_raises whether
\* conn.rollback() raises.
api_query(f, desc, rollback_raises) ==
    LET refused == {i \in 1..Len(query) : stmt_check(query[i]).denied # {}}
        calls   == handler_calls(api_query_try(Len(query), desc), f,
                                 rollback_raises)
    IN  /\ request = NoRequest
        /\ f <= 2 + 2 * Len(query)
        /\ Len(desc) = Len(query)
        /\ \/ \* lines 51-52
              /\ query = <<>>
              /\ Executed("api_query", {}, 0, "400 no statements")
              /\ trace' = [handler |-> "api_query", calls |-> <<>>,
                         outcome |-> "400 no statements"]
           \/ \* lines 54-63: the first refused schema of the first refused
              \* statement raises
              /\ \E i \in refused :
                   /\ \A j \in refused : i <= j
                   /\ \E d \in stmt_check(query[i]).denied :
                      \E before \in SUBSET (stmt_check(query[i]).schemas \
                                            stmt_check(query[i]).denied) :
                         Executed("api_query",
                                  UNION {stmt_checked(query[j]) :
                                            j \in 1..(i - 1)}
                                  \cup {<<Lower(s), stmt_check(query[i]).op>> :
                                            s \in before \cup {d}},
                                  0, "403")
              /\ trace' = [handler |-> "api_query", calls |-> <<>>,
                         outcome |-> "403"]
           \/ \* lines 65-95: a raising rollback leaves the except block
              \* before HTTPException(400) is raised
              /\ query # <<>>
              /\ refused = {}
              /\ LET outcome == IF f = 0 THEN "200"
                                ELSE IF f # 1 /\ rollback_raises
                                     THEN "rollback error"
                                     ELSE "400"
                 IN  /\ Executed("api_query",
                                 UNION {stmt_checked(query[j]) :
                                           j \in 1..Len(query)},
                                 executed_of(calls), outcome)
                     /\ trace' = [handler |-> "api_query", calls |-> calls,
                                outcome |-> outcome]

\* synthesize_and_load(mgr) with n statements: the f-th call of the try
\* block raises (f = 0: none); the exception is raised again after the
\* rollback (a ConnectionError of the rollback is logged)
synthesize_and_load(n, f, rollback_raises) ==
    /\ trace = NoRun
    /\ f <= 3 + n
    /\ trace' = [handler |-> "synthesize_and_load",
               calls |-> handler_calls(synthesize_and_load_try(n), f,
                                       rollback_raises),
               outcome |-> IF f = 0 THEN "returned" ELSE "raised"]

\* ---- stream_query (mcp.py 427-451) ----------------------------------------
\* the most rows a streamed result has, and the largest batch size
MaxRows == 7
MaxBatchSize == 4

Min(a, b) == IF a <= b THEN a ELSE b

\* the result set of the cursor: rows 1..n in result order
result_rows(n) == [i \in 1..n |-> i]

\* A fetchmany that returns all the remaining rows, whatever the size.
fetchmany_rest(rows, pos, size) == SubSeq(rows, pos + 1, Len(rows))

\* cursor.fetchmany(size) with `pos` rows already fetched: the next rows,
\* at most `size`
fetchmany(rows, pos, size) ==
    SubSeq(rows, pos + 1, Min(pos + size, Len(rows)))

\* lines 442-447: `while True: batch = cursor.fetchmany(batch_size); if not
\* batch: break; total += len(batch); await ctx.send(...)`
RECURSIVE stream_loop(_, _, _, _)
stream_loop(rows, batch_size, total, sent) ==
    LET batch == fetchmany(rows, total, batch_size)
    IN  IF batch = <<>>
        THEN [total |-> total, sent |-> sent]
        ELSE stream_loop(rows, batch_size, total + Len(batch),
                         Append(sent, [op |-> "send", kind |-> "rows",
                                       rows |-> batch]))

\* stream_query(ctx, query, batch_size=batch_size): the database answers the
\* statement with n rows if `description` (a result set) and with none
\* otherwise; `admitted` is whether query_limiter lets the request in.
stream_query(n, batch_size, description, admitted) ==
    LET op      == _extract_operation_type(query)
        schemas == schemas_or(_extract_schemas(query), "")
        denied  == {s \in schemas : ~is_operation_allowed(config, s, op)}
        args    == [rows |-> n, batch_size |-> batch_size,
                    description |-> description]
        looped  == stream_loop(result_rows(n), batch_size, 0,
                               <<[op |-> "send", kind |-> "columns",
                                  rows |-> <<>>]>>)
    IN  /\ trace = NoRun
        /\ trace' =
             IF op # None /\ denied # {}
             THEN \* line 431: _ensure_permissions raises
                  [handler |-> "stream_query", args |-> args,
                   calls |-> <<>>, outcome |-> "PermissionError"]
             ELSE IF ~admitted
             THEN \* lines 449-451
                  [handler |-> "stream_query", args |-> args,
                   calls |-> <<>>, outcome |-> "error"]
             ELSE IF ~description
             THEN \* lines 437-438
                  [handler |-> "stream_query", args |-> args,
                   calls |-> <<>>, outcome |-> "rows_streamed",
                   rows_streamed |-> 0]
             ELSE \* lines 439-448
                  [handler |-> "stream_query", args |-> args,
                   calls |-> looped.sent, outcome |-> "rows_streamed",
                   rows_streamed |-> looped.total]

\* ---- staleness (mcp.py 81-105, 354-370) ----------------------------------
\* the most digits a fractional second is written with
MaxFrac == 6
\* the most rows and the most cells per row of a result
MaxResultRows == 2
MaxCells == 2

\* line 105: `age.total_seconds() > 3600`
stale_after == 3600
\* line 94: `value[:26]`
slice_len == 26
\* len("2026-11-01T06:31:11")
len_seconds == 19

\* datetime.now(UTC), in seconds of the model's clock
utc_now == 7200

\* the instants a timestamp denotes: 2 h, 1 h + 1 s, 1 h, 1 h - 1 s, 30 min
\* and 0 s before utc_now, and 30 min after it
Instants == {0, 3599, 3600, 3601, 5400, 7200, 9000}

\* the text after the seconds and the fraction: nothing, "Z", "+00:00"
Suffixes == {"", "Z", "+00:00"}

suffix_len(s) == CASE s = "" -> 0 [] s = "Z" -> 1 [] s = "+00:00" -> 6
                   [] OTHER -> 1

\* a timestamp text "YYYY-mm-dd<sep>HH:MM:SS[.f..f][suffix]" of instant ts
TimestampTexts ==
    [kind : {"str"}, text : {"timestamp"}, sep : {" ", "T"},
     frac : 0..MaxFrac, suffix : Suffixes, ts : Instants]

\* the values _is_stale is given: None, an aware datetime, epoch seconds, an
\* epoch outside the range of datetime (e.g. milliseconds), a timestamp
\* text, "", "   ", "not-a-date", and a value of another type
Values ==
    {[kind |-> "None"], [kind |-> "other"],
     [kind |-> "number", in_range |-> FALSE, ts |-> 0]}
    \cup [kind : {"datetime"}, ts : Instants]
    \cup [kind : {"number"}, in_range : {TRUE}, ts : Instants]
    \cup TimestampTexts
    \cup [kind : {"str"}, text : {"", "   ", "not-a-date"}, sep : {" "},
          frac : {0}, suffix : {""}, ts : {0}]

\* len(value) of a timestamp text
text_len(v) ==
    len_seconds + (IF v.frac > 0 THEN 1 + v.frac ELSE 0) + suffix_len(v.suffix)

\* value[:n] of a timestamp text, n >= len_seconds: the digits of the
\* fraction and the suffix that fit; a suffix cut short is "+"
slice(v, n) ==
    LET room == n - len_seconds - (IF v.frac > 0 THEN 1 ELSE 0)
        frac == Min(v.frac, room)
        left == room - frac
    IN  IF text_len(v) <= n THEN v
        ELSE [v EXCEPT !.frac = frac,
                       !.suffix = IF left >= suffix_len(v.suffix) THEN @
                                  ELSE IF left = 0 THEN "" ELSE "+"]

\* datetime.strptime(v, fmt) succeeds, for the three formats of line 92
strptime_ok(v, fmt) ==
    /\ v.text = "timestamp"
    /\ CASE fmt = "%Y-%m-%d %H:%M:%S" ->
              v.sep = " " /\ v.frac = 0 /\ v.suffix = ""
         [] fmt = "%Y-%m-%dT%H:%M:%S" ->
              v.sep = "T" /\ v.frac = 0 /\ v.suffix = ""
         [] fmt = "%Y-%m-%dT%H:%M:%S.%fZ" ->
              v.sep = "T" /\ v.frac \in 1..6 /\ v.suffix = "Z"

formats == {"%Y-%m-%d %H:%M:%S", "%Y-%m-%dT%H:%M:%S", "%Y-%m-%dT%H:%M:%S.%fZ"}

\* str.strip() of the texts of Values
strip(v) == IF v.text = "   " THEN [v EXCEPT !.text = ""] ELSE v

\* _is_stale(value): the value returned, or raised = TRUE when
\* datetime.fromtimestamp raises (ValueError, OverflowError, OSError)
_is_stale(value) ==
    LET older(ts) == [raised |-> FALSE,
                      value |-> (utc_now - ts) > stale_after]
        stale     == [raised |-> FALSE, value |-> TRUE]
    IN  CASE value.kind = "None" -> stale
          [] value.kind = "datetime" -> older(value.ts)
          [] value.kind = "number" ->
               IF value.in_range THEN older(value.ts)
               ELSE [raised |-> TRUE, value |-> FALSE]
          [] value.kind = "str" ->
               IF strip(value).text = "" THEN stale
               ELSE IF \E fmt \in formats :
                          strptime_ok(slice(strip(value), slice_len), fmt)
                    THEN older(value.ts)
                    ELSE stale
          [] OTHER -> stale

\* the cells of a result row: datetimes of 30 min and of 2 h ago, a number
\* (which is not datetime-typed), a NULL
Cells == {[kind |-> "datetime", ts |-> 5400], [kind |-> "datetime", ts |-> 0],
          [kind |-> "number", in_range |-> TRUE, ts |-> 0],
          [kind |-> "None"]}

\* `next((cell for cell in row if isinstance(cell, datetime)), None)`
first_datetime(row) ==
    LET at == {j \in 1..Len(row) : row[j].kind = "datetime"}
    IN  IF at = {} THEN [kind |-> "None"]
        ELSE row[CHOOSE j \in at : \A k \in at : j <= k]

\* _execute_sql(manager, query, expect_result=expect_result): the statement
\* returns `rows` if it has a result set (`description`); `admitted` is
\* whether query_limiter lets the request in
_execute_sql(rows, description, expect_result, admitted) ==
    LET args == [rows |-> rows, description |-> description,
                 expect_result |-> expect_result]
    IN  /\ trace = NoRun
        /\ trace' =
             IF ~admitted
             THEN [handler |-> "_execute_sql", args |-> args, calls |-> <<>>,
                   outcome |-> "TooManyRequestsError"]
             ELSE IF description /\ expect_result
             THEN \* lines 365-369
                  [handler |-> "_execute_sql", args |-> args, calls |-> <<>>,
                   outcome |-> "rows", row_count |-> Len(rows),
                   stale |-> \E i \in 1..Len(rows) :
                                 _is_stale(first_datetime(rows[i])).value]
             ELSE \* line 370
                  [handler |-> "_execute_sql", args |-> args, calls |-> <<>>,
                   outcome |-> "rowcount", row_count |-> 0, stale |-> FALSE]

\* one call _is_stale(value)
is_stale_call(value) ==
    /\ trace = NoRun
    /\ trace' = [handler |-> "_is_stale", args |-> value, calls |-> <<>>,
                 outcome |-> IF _is_stale(value).raised THEN "raised"
                             ELSE "returned",
                 stale |-> _is_stale(value).value]

\* ---- copy_data (mcp.py 69-78, 454-487; seed_itsm.py 20-30) ---------------
\* the longest schema or table name, in characters
MaxIdent == 2

\* one character of each class of the pattern, and one of none
IdentChars == {"a", "A", "_", "1", "-"}

\* the names: strings of up to MaxIdent characters, "" included
Idents == SeqsUpTo(IdentChars, MaxIdent)

\* str.lower()
lower(name) == [i \in 1..Len(name) |-> IF name[i] = "A" THEN "a" ELSE name[i]]

\* re.fullmatch(r"[A-Za-z_][A-Za-z0-9_]*", value)
fullmatch(value) ==
    /\ value # <<>>
    /\ value[1] \in {"a", "A", "_"}
    /\ \A i \in 2..Len(value) : value[i] \in {"a", "A", "_", "1"}

\* A _sanitize_ident that accepts every name.
_sanitize_ident_never_raises(value) == [raised |-> FALSE, value |-> value]

\* _sanitize_ident(value): the value, or ValueError("Invalid identifier")
_sanitize_ident(value) ==
    [raised |-> ~fullmatch(value), value |-> value]

\* _qual(schema, name): "schema.name", or "name" when schema is empty
_qual(schema, name) ==
    IF schema # <<>>
    THEN [raised |-> _sanitize_ident(schema).raised
                     \/ _sanitize_ident(name).raised,
          value |-> _sanitize_ident(schema).value \o <<".">>
                    \o _sanitize_ident(name).value]
    ELSE [raised |-> _sanitize_ident(name).raised,
          value |-> _sanitize_ident(name).value]

\* the cells of the rows to load: None, the strings "\N", "a", "a,b" and ""
CopyCells == {[kind |-> "None"], [kind |-> "str", text |-> "\\N"],
              [kind |-> "str", text |-> "a"], [kind |-> "str", text |-> "a,b"],
              [kind |-> "str", text |-> ""]}

\* csv.writer quotes the field under QUOTE_MINIMAL: it holds the delimiter,
\* the quote character or a line end, or it is the empty only field of a row
needs_quotes(text, only_field) ==
    text = "a,b" \/ (text = "" /\ only_field)

\* one field as csv.writer writes it: `"\\N" if cell is None else cell`,
\* enclosed in quotes or not
write_field(cell, quoting, only_field) ==
    LET text == IF cell.kind = "None" THEN "\\N" ELSE cell.text
    IN  [text |-> text,
         quoted |-> quoting = "QUOTE_ALL" \/ needs_quotes(text, only_field)]

\* writer.writerows(...): one line per row, one field per cell
writerows(data, quoting) ==
    [i \in 1..Len(data) |->
        [j \in 1..Len(data[i]) |->
            write_field(data[i][j], quoting, Len(data[i]) = 1)]]

\* what COPY ... ENCLOSED BY '"' NULL '\N' stores for a field: NULL for a
\* bare \N, the text for any other field; whether an enclosed "\N" is NULL
\* is the database's choice (enclosed_null)
read_field(field, enclosed_null) ==
    IF field.text = "\\N" /\ (~field.quoted \/ enclosed_null)
    THEN [kind |-> "None"]
    ELSE [kind |-> "str", text |-> field.text]

\* the table after the load
loaded(buffer, enclosed_null) ==
    [i \in 1..Len(buffer) |->
        [j \in 1..Len(buffer[i]) |-> read_field(buffer[i][j], enclosed_null)]]

\* copy_data(ctx, schema, table, data); the configuration holds no
\* per-schema entry, so that is_operation_allowed(target_schema, INSERT) is
\* the global flag (connection.py 429-439)
copy_data(schema, table, data, admitted, enclosed_null) ==
    LET target_schema == lower(schema)
        args     == [schema |-> schema, table |-> table, data |-> data]
        buffer   == writerows(data, "QUOTE_MINIMAL")
        target   == _qual(target_schema, table)
        none     == [handler |-> "copy_data", args |-> args, calls |-> <<>>,
                     copy_sql |-> <<>>, entered |-> FALSE, buffer |-> <<>>,
                     outcome |-> "none"]
    IN  /\ trace = NoRun
        /\ DOMAIN config.schema_permissions = {}
        /\ trace' =
             IF ~config.allow_insert
             THEN \* lines 457-458
                  [none EXCEPT !.outcome = "PermissionError"]
             ELSE IF target.raised
             THEN \* lines 464-469: _qual raises while copy_sql is built
                  [none EXCEPT !.buffer = buffer, !.outcome = "ValueError"]
             ELSE IF ~admitted
             THEN \* lines 474-476
                  [none EXCEPT !.buffer = buffer, !.copy_sql = target.value,
                               !.entered = TRUE, !.outcome = "error"]
             ELSE \* lines 470-487
                  [none EXCEPT !.buffer = buffer, !.copy_sql = target.value,
                               !.entered = TRUE,
                               !.calls = <<[op |-> "copy",
                                            sql |-> target.value,
                                            stored |-> loaded(buffer,
                                                        enclosed_null)]>>,
                               !.outcome = "rows_copied"]

\* rows_to_buffer(write_rows) of seed_itsm.py, and the COPY of its buffer
rows_to_buffer(data, enclosed_null) ==
    /\ trace = NoRun
    /\ trace' = [handler |-> "rows_to_buffer", args |-> [data |-> data],
                 buffer |-> writerows(data, "QUOTE_ALL"),
                 calls |-> <<[op |-> "copy", sql |-> <<>>,
                              stored |-> loaded(writerows(data, "QUOTE_ALL"),
                                                enclosed_null)]>>,
                 outcome |-> "returned"]

\* ---- the query limiter (mcp.py, QueryLimiter) -----------------------------
\* how many requests use the limiter in one behaviour
MaxTasks == 3
\* the largest value of MCP_MAX_CONCURRENT_QUERIES, its default apart
MaxConcurrent == 2
\* the longest a guarded statement runs, in seconds
MaxBlock == 6
\* the clock stops here
MaxTime == 7

\* os.getenv("MCP_MAX_CONCURRENT_QUERIES", "4")
default_limit == 4
\* os.getenv("MCP_MAX_QUERY_WAIT_SECONDS", "5")
default_timeout == 5

Tasks == 1..MaxTasks

\* the values of int(os.getenv("MCP_MAX_CONCURRENT_QUERIES", "4"))
LimitValues == (0..MaxConcurrent) \cup {default_limit}

\* the values of float(os.getenv("MCP_MAX_QUERY_WAIT_SECONDS", "5"))
TimeoutValues == {1, default_timeout}

Max(a, b) == IF a >= b THEN a ELSE b

\* QueryLimiter.__init__ with int(os.getenv(...)) = limit; `ceiling` is the
\* initial value of the semaphore
QueryLimiter(limit, timeout) ==
    [ceiling |-> Max(1, limit), _sem |-> Max(1, limit), _timeout |-> timeout,
     _acquired |-> FALSE, raised |-> FALSE]

\* A semaphore that is never locked.
locked_never(L) == FALSE

\* asyncio.Semaphore.locked(): acquire() has to wait
locked(L) == L._sem = 0

\* QueryLimiter.__aenter__: `got` is whether _sem.acquire() returns before
\* wait_for gives up; TooManyRequestsError is raised if not
__aenter__(L, got) ==
    IF got
    THEN [L EXCEPT !._sem = @ - 1, !._acquired = TRUE, !.raised = FALSE]
    ELSE [L EXCEPT !.raised = TRUE]

\* QueryLimiter.__aexit__
__aexit__(L) ==
    IF L._acquired
    THEN [L EXCEPT !._sem = @ + 1, !._acquired = FALSE]
    ELSE L

\* a request that has not started
NoTask == [pc |-> "idle", executed |-> FALSE, deadline |-> 0]

\* `async with query_limiter:` is reached (lines 361, 433, 471): a free slot
\* is taken at once, else the request waits in wait_for(_sem.acquire(),
\* _timeout), whose timer is set to now + _timeout
Enter(r) ==
    /\ tasks[r].pc = "idle"
    /\ \/ /\ ~locked(limiter)
          /\ limiter' = __aenter__(limiter, TRUE)
          /\ tasks' = [tasks EXCEPT ![r].pc = "inside"]
       \/ /\ locked(limiter)
          /\ tasks' = [tasks EXCEPT ![r].pc = "waiting",
                                    ![r].deadline = now + limiter._timeout]
          /\ UNCHANGED limiter
    /\ UNCHANGED now

\* the waiting _sem.acquire() is woken by a release: wait_for returns
Admit(r) ==
    /\ tasks[r].pc = "waiting"
    /\ ~locked(limiter)
    /\ limiter' = __aenter__(limiter, TRUE)
    /\ tasks' = [tasks EXCEPT ![r].pc = "inside", ![r].deadline = 0]
    /\ UNCHANGED now

\* the timer of wait_for fires: __aenter__ raises TooManyRequestsError, the
\* body and __aexit__ do not run, the handler returns {"error": ...}
\* (lines 422-424, 449-451, 478-480)
Timeout(r) ==
    /\ tasks[r].pc = "waiting"
    /\ now >= tasks[r].deadline
    /\ limiter' = [__aenter__(limiter, FALSE) EXCEPT !.raised = FALSE]
    /\ tasks' = [tasks EXCEPT ![r].pc = "rejected", ![r].deadline = 0]
    /\ UNCHANGED now

\* the guarded body: cursor.execute (lines 364, 436, 475) is a synchronous
\* call that takes d seconds, during which the event loop runs no other
\* coroutine and no timer; then the body ends, normally or with an
\* exception, and __aexit__ runs
Leave(r, exc, d) ==
    /\ tasks[r].pc = "inside"
    /\ now + d <= MaxTime
    /\ now' = now + d
    /\ limiter' = __aexit__(limiter)
    /\ tasks' = [tasks EXCEPT ![r].pc = IF exc THEN "raised" ELSE "done",
                              ![r].executed = TRUE]

\* a second passes while the event loop is idle; a timer that is due is run
\* first
Tick ==
    /\ now < MaxTime
    /\ \A r \in Tasks : tasks[r].pc = "waiting" => now < tasks[r].deadline
    /\ now' = now + 1
    /\ UNCHANGED <<limiter, tasks>>

\* ---- health endpoint and HTTP authentication (health.py, mcp.py) ----------
\* how many trailing "/" a request path may carry
MaxSlashes == 1

\* os.environ without MCP_HTTP_TOKEN and MCP_HEALTH_REQUIRE_READY
NoEnviron == [MCP_HTTP_TOKEN |-> Unset, MCP_HEALTH_REQUIRE_READY |-> Unset]

Environs ==
    [MCP_HTTP_TOKEN : {Unset, "", "secret"},
     MCP_HEALTH_REQUIRE_READY : {Unset, "0", "True"}]

\* os.getenv(name, default)
os_getenv(name, default) ==
    IF environ[name] = Unset THEN default ELSE environ[name]

\* _COMPONENTS = {}
NoComponents == [n \in {} |-> None]

ComponentNames == {"vertica", "cache"}

\* the dictionary set_component_status builds (lines 42-48)
component_state(ready, attempts, last_error, last_attempt_utc,
                ready_since_utc) ==
    [ready |-> ready,
     attempts |-> attempts,
     last_error |-> last_error,
     last_attempt_utc |-> last_attempt_utc,
     ready_since_utc |-> ready_since_utc]

\* set_component_status(name, ready=..., ...)
set_component_status(components, name, state) ==
    [n \in DOMAIN components \cup {name} |->
        IF n = name THEN state ELSE components[n]]

\* _snapshot()
_snapshot ==
    LET components == _COMPONENTS
        ok == IF DOMAIN components # {}
              THEN \A n \in DOMAIN components : components[n].ready
              ELSE TRUE
    IN  [ok |-> ok, components |-> components]

\* A health endpoint that answers 503 whenever the snapshot is not ok.
healthz_strict ==
    LET payload == _snapshot
    IN  [status_code |-> IF payload.ok THEN 200 ELSE 503, body |-> payload]

\* healthz(request): JSONResponse(payload, status_code)
healthz ==
    LET payload == _snapshot
        require_ready ==
            Lower(os_getenv("MCP_HEALTH_REQUIRE_READY", ""))
                \in {"1", "true", "yes", "on"}
        status_code == IF payload.ok \/ ~require_ready THEN 200 ELSE 503
    IN  [status_code |-> status_code, body |-> payload]

\* _alive(request): PlainTextResponse("ok")
_alive == [status_code |-> 200, body |-> [text |-> "ok"]]

\* the handler of test_health's /protected route
_protected == [status_code |-> 200, body |-> [ok |-> TRUE]]

\* A request path: `stem` without a trailing "/", followed by `slashes`
\* times "/". The stem "" with one slash is the path "/".
Stems == {"", "/healthz", "/_alive", "/protected"}

Paths ==
    {p \in [stem : Stems, slashes : 0..MaxSlashes] :
        p.stem = "" => p.slashes >= 1}

\* the paths that have a route (add_route in create_http_app, app.route in
\* test_health._build_app)
routes == {"/healthz", "/_alive", "/protected"}

\* request.url.path.rstrip("/") or "/"
rstrip_or_root(path) == IF path.stem = "" THEN "/" ELSE path.stem

\* a or b, for values that are None or strings
Or(a, b) == IF a \in {None, ""} THEN b ELSE a

\* what a client sends as X-API-Key header and as token query parameter
Supplied == {None, "", "secret", "wrong"}

Requests == [path : Paths, X_API_Key : Supplied, token : Supplied]

\* call_next(request): Starlette's router runs the route of the exact path,
\* redirects a path with trailing slashes to its route, and answers 404
\* to anything else.
call_next(req) ==
    LET path == req.path
    IN  IF path.slashes = 0 /\ path.stem \in routes
        THEN [handler |-> path.stem] @@
             (CASE path.stem = "/healthz" -> healthz
                [] path.stem = "/_alive" -> _alive
                [] OTHER -> _protected)
        ELSE IF path.stem \in routes
        THEN [handler |-> None, status_code |-> 307,
              body |-> [location |-> path.stem]]
        ELSE [handler |-> None, status_code |-> 404,
              body |-> [text |-> "Not Found"]]

\* A middleware that lets every req through.
dispatch_open(req) == call_next(req)

\* AuthMiddleware.dispatch(request, call_next)
dispatch(req) ==
    LET path == rstrip_or_root(req.path)
        token == os_getenv("MCP_HTTP_TOKEN", None)
        supplied == Or(req.X_API_Key, req.token)
    IN  IF path \in {"/healthz", "/_alive"}
        THEN call_next(req)
        ELSE IF token \in {None, ""}
        THEN call_next(req)
        ELSE IF supplied # token
        THEN [handler |-> None, status_code |-> 401,
              body |-> [error |-> "unauthorized"]]
        ELSE call_next(req)

\* no HTTP request was made
NoResponse ==
    [request |-> [path |-> [stem |-> "", slashes |-> 0],
                  X_API_Key |-> None, token |-> None],
     handler |-> None, status_code |-> 0, body |-> [text |-> ""]]

\* ---- the connection manager (connection.py 377-446) and the lifespan ------
\* how many pools a manager builds in one run
MaxPools == 2

\* self.pool is None
NoPool == 0

\* the VerticaConfig objects handed to initialize_default
Configs == {"A", "B"}

\* the one VerticaConfig.from_env() returns to the lifespan
from_env_config == "A"

\* no initialize_default call is under way
NoCall_ == [op |-> "none", config |-> None]

\* VerticaConnectionManager()
VerticaConnectionManager ==
    [pool |-> NoPool,
     config |-> None,
     pools |-> <<>>,
     closed |-> {},
     created |-> 0,
     torn |-> {},
     call |-> NoCall_,
     last |-> [op |-> "none", target |-> NoPool, conn |-> Foreign,
               result |-> "none"]]

\* The pool object p of manager state m together with the connections' state,
\* in the form the pool's methods work on.
PoolOf(m, p) ==
    [config |-> m.pools[p].config,
     pool |-> m.pools[p].pool,
     active_connections |-> m.pools[p].active_connections,
     checked_out_connections |-> m.pools[p].checked_out_connections,
     rebuild_attempts |-> m.pools[p].rebuild_attempts,
     closed |-> m.closed,
     created |-> m.created,
     raised |-> FALSE]

\* The pool object as it is stored: s after a method ran on it.
Stored(m, s) ==
    [config |-> s.config,
     pool |-> s.pool,
     active_connections |-> s.active_connections,
     checked_out_connections |-> s.checked_out_connections,
     rebuild_attempts |-> s.rebuild_attempts]

\* VerticaConnectionPool.get_connection on the pool state s (lines 259-306):
\* the state after the call, what it returned or raised.
pool_get_connection(s, ok, k) ==
    IF s.active_connections >= ConnectionLimit
    THEN [s |-> s, conn |-> Foreign, result |-> "exhausted"]
    ELSE IF s.pool = <<>>
    THEN [s |-> s, conn |-> Foreign, result |-> "timeout"]
    ELSE IF ~conn_closed(s, Head(s.pool))
    THEN [s |-> [s EXCEPT
                   !.pool = Tail(@),
                   !.active_connections = @ + 1,
                   !.checked_out_connections = @ \cup {Head(s.pool)}],
          conn |-> Head(s.pool), result |-> "ok"]
    ELSE IF ok
    THEN [s |-> [s EXCEPT
                   !.pool = Tail(@),
                   !.created = @ + 1,
                   !.active_connections = @ + 1,
                   !.checked_out_connections = @ \cup {s.created + 1}],
          conn |-> s.created + 1, result |-> "replaced"]
    ELSE [s |-> _handle_rebuild([s EXCEPT !.pool = Tail(@)], k),
          conn |-> Foreign, result |-> "connect_error"]

\* VerticaConnectionPool.release_connection on the pool state s (308-352)
pool_release_connection(s, conn, ok) ==
    IF ~is_checked_out(s, conn)
    THEN [s |-> s, result |-> "ignored"]
    ELSE LET s1 == [s EXCEPT !.checked_out_connections = @ \ {conn}]
             s2 == [s1 EXCEPT
                      !.active_connections = IF @ > 0 THEN @ - 1 ELSE @]
         IN  IF ~conn_closed(s, conn)
             THEN IF QueueFull(s1)
                  THEN [s |-> s1, result |-> "blocked"]
                  ELSE [s |-> [s2 EXCEPT !.pool = Append(@, conn)],
                        result |-> "returned"]
             ELSE IF ok
             THEN IF QueueFull(s1)
                  THEN [s |-> [s1 EXCEPT !.created = @ + 1],
                        result |-> "blocked"]
                  ELSE [s |-> [s2 EXCEPT !.pool = Append(@, s.created + 1),
                                         !.created = @ + 1],
                        result |-> "replaced"]
             ELSE [s |-> s2, result |-> "dropped"]

\* VerticaConnectionPool.close_all on the pool state s (354-375)
pool_close_all(s) ==
    [s EXCEPT !.closed = @ \cup Range(s.pool) \cup s.checked_out_connections,
              !.pool = <<>>,
              !.checked_out_connections = {},
              !.active_connections = 0]

\* VerticaConnectionPool(config) (119-134): the new object's state, raised
\* set when _initialize_pool raised.
new_pool(m, cfg, k) ==
    _initialize_pool([config |-> cfg,
                      pool |-> <<>>,
                      active_connections |-> 0,
                      checked_out_connections |-> {},
                      rebuild_attempts |-> 0,
                      closed |-> m.closed,
                      created |-> m.created,
                      raised |-> FALSE], k)

\* The manager state after a method of pool p left the pool in state s: the
\* connections that were checked out of p and are no longer tracked by it
\* without having been released were torn down with it.
After(m, p, s, released) ==
    [m EXCEPT !.pools[p] = Stored(m, s),
              !.closed = s.closed,
              !.created = s.created,
              !.torn = @ \cup ((m.pools[p].checked_out_connections
                                  \ s.checked_out_connections) \ released)]

Did(m, op, target, conn, result) ==
    [m EXCEPT !.last = [op |-> op, target |-> target, conn |-> conn,
                        result |-> result]]

\* An initialize_default that leaves the old pool open.
initialize_default_begin_keeps_old(m, cfg) ==
    [m EXCEPT !.config = cfg,
              !.call = [op |-> "initialize_default", config |-> cfg]]

\* initialize_default(config), lines 386-389: the configuration is stored and
\* the pool the manager has is closed.
initialize_default_begin(m, cfg) ==
    LET m1 == [m EXCEPT !.config = cfg,
                        !.call = [op |-> "initialize_default",
                                  config |-> cfg]]
    IN  IF m.pool # NoPool
        THEN After(m1, m.pool, pool_close_all(PoolOf(m1, m.pool)), {})
        ELSE m1

\* initialize_default(config), line 390: the new pool is built, k connect()
\* calls succeeding before one raises, and becomes the manager's pool; if the
\* constructor raises the assignment does not happen.
initialize_default_build(m, k) ==
    LET new == new_pool(m, m.call.config, k)
        m1  == [m EXCEPT !.closed = new.closed, !.created = new.created,
                         !.call = NoCall_]
    IN  IF new.raised
        THEN Did(m1, "initialize_default", m.pool, Foreign, "connect_error")
        ELSE Did([m1 EXCEPT !.pools = Append(@, Stored(m, new)),
                            !.pool = Len(m.pools) + 1],
                 "initialize_default", Len(m.pools) + 1, Foreign, "ok")

\* VerticaConnectionManager.get_connection(), with p the value of self.pool
\* the caller read
manager_get_connection(m, p, ok, k) ==
    IF p = NoPool
    THEN Did(m, "get_connection", p, Foreign, "not_initialized")
    ELSE LET r == pool_get_connection(PoolOf(m, p), ok, k)
         IN  Did(After(m, p, r.s, {}),
                 "get_connection", p, r.conn, r.result)

\* VerticaConnectionManager.release_connection(conn), with p the value of
\* self.pool the caller read
manager_release_connection(m, p, conn, ok) ==
    IF p = NoPool
    THEN Did(m, "release_connection", p, conn, "none")
    ELSE LET r == pool_release_connection(PoolOf(m, p), conn, ok)
         IN  Did(After(m, p, r.s, {conn}),
                 "release_connection", p, conn, r.result)

\* VerticaConnectionManager.close_all()
manager_close_all(m) ==
    IF m.pool = NoPool
    THEN Did(m, "close_all", NoPool, Foreign, "none")
    ELSE Did(After(m, m.pool, pool_close_all(PoolOf(m, m.pool)), {}),
             "close_all", m.pool, Foreign, "ok")

\* server_lifespan up to its yield (lines 226-231): the manager is made and
\* initialized from the environment's configuration; an exception of
\* initialize_default leaves through the finally clause, which calls
\* manager.close_all(), and the lifespan does not start.
server_lifespan_enter(m, cfg, k) ==
    LET m1 == initialize_default_build(initialize_default_begin(m, cfg), k)
    IN  IF m1.last.result = "ok"
        THEN [manager |-> m1, outcome |-> "running",
              components |-> _COMPONENTS]
        ELSE [manager |-> manager_close_all(m1), outcome |-> "raised",
              components |-> _COMPONENTS]

\* server_lifespan after its yield (lines 232-234)
server_lifespan_exit(m) ==
    [manager |-> manager_close_all(m), outcome |-> "exited",
     components |-> _COMPONENTS]

\* ---- the way of one request through a tool handler (mcp.py 344-451) -------
\* A handler that asks for no permission.
_ensure_permissions_never_raises(cfg, q) == FALSE

\* _ensure_permissions(manager, query): whether it raises PermissionError
_ensure_permissions(cfg, q) ==
    LET op      == _extract_operation_type(q)
        schemas == schemas_or(_extract_schemas(q), "")
    IN  /\ op # None
        /\ \E s \in schemas : ~is_operation_allowed(cfg, s, op)

\* a request that was received by `handler`
Received(handler) ==
    [handler |-> handler, calls |-> <<"received">>, outcome |-> "received",
     conn |-> Foreign]

\* the request goes on to `outcome`
Moved(t, outcome) ==
    [t EXCEPT !.calls = Append(@, outcome), !.outcome = outcome]

\* the first half of _ensure_permissions (line 345)
flow_classify(t) == Moved(t, "classified")

\* the second half of _ensure_permissions (lines 346-351)
flow_authorize(t, cfg, q) ==
    IF _ensure_permissions(cfg, q)
    THEN Moved(t, "denied")
    ELSE Moved(t, "authorized")

\* A limiter entry that lets the request in without a slot when none is free.
flow_admit_always(t, L) ==
    [trace |-> Moved(t, "admitted"),
     limiter |-> IF locked(L) THEN L ELSE __aenter__(L, TRUE)]

\* `async with query_limiter:` (lines 361, 433) with no other request leaving
\* meanwhile: a free slot is taken, without one the wait ends with
\* TooManyRequestsError, which the handler answers with an error message
flow_admit(t, L) ==
    IF locked(L)
    THEN [trace |-> Moved(t, "rejected"), limiter |-> __aenter__(L, FALSE)]
    ELSE [trace |-> Moved(t, "admitted"), limiter |-> __aenter__(L, TRUE)]

\* `with manager.get_cursor() as cursor:` entered (lines 363, 435): a
\* connection is acquired from the manager; if that raises, the exception
\* leaves the limiter block
flow_acquire(t, L, m, ok, k) ==
    LET m1 == manager_get_connection(m, m.pool, ok, k)
    IN  IF m1.last.result \in {"ok", "replaced"}
        THEN [trace |-> [Moved(t, "executing") EXCEPT !.conn = m1.last.conn],
              limiter |-> L, manager |-> m1]
        ELSE [trace |-> Moved(t, "failed"),
              limiter |-> __aexit__(L), manager |-> m1]

\* cursor.execute(query) and the fetches (lines 364-370, 436-447)
flow_execute(t, ok) == Moved(t, IF ok THEN "executed" ELSE "raised")

\* the end of the get_cursor block: the connection goes back to the pool
flow_release(t, m, ok) ==
    [trace |-> [t EXCEPT !.calls = Append(@, "released"),
                         !.outcome = IF t.outcome = "executed"
                                     THEN "releasing" ELSE "unwinding",
                         !.conn = Foreign],
     manager |-> manager_release_connection(m, m.pool, t.conn, ok)]

\* the end of the limiter block
flow_leave(t, L) ==
    [trace |-> Moved(t, IF t.outcome = "releasing"
                        THEN "succeeded" ELSE "failed"),
     limiter |-> __aexit__(L)]

\* a manager that the lifespan initialized, n of whose connections other
\* requests hold
RECURSIVE InitializedManager(_)
InitializedManager(n) ==
    IF n = 0
    THEN initialize_default_build(
             initialize_default_begin(VerticaConnectionManager,
                                      from_env_config),
             ConnectionLimit)
    ELSE manager_get_connection(InitializedManager(n - 1), 1, TRUE, 0)

\* no request uses the limiter
LimiterIdle ==
    /\ limiter = QueryLimiter(default_limit, default_timeout)
    /\ tasks = [r \in Tasks |-> NoTask]
    /\ now = 0

\* no HTTP request was made, no component is recorded, the manager is as
\* constructed
AppIdle ==
    /\ environ = NoEnviron
    /\ _COMPONENTS = NoComponents
    /\ response = NoResponse
    /\ manager = VerticaConnectionManager

SvcIdle ==
    /\ LimiterIdle
    /\ trace = NoRun
    /\ AppIdle

PermIdle ==
    /\ env = EmptyEnv
    /\ config = from_env(env)
    /\ allowed = NoCall

SqlIdle ==
    /\ query = <<>>
    /\ classified = Unclassified
    /\ request = NoRequest

vars == <<pool_vars, perm_vars, sql_vars, svc_vars, app_vars>>

\* The pool alone: the configuration is the one of an empty environment and
\* no permission is asked for.
Init ==
    /\ PoolInit
    /\ env = EmptyEnv
    /\ config = from_env(env)
    /\ allowed = NoCall
    /\ query = <<>>
    /\ classified = Unclassified
    /\ request = NoRequest
    /\ SvcIdle

Next ==
    \/ Construct
    \/ Acquire
    \/ Release
    \/ CloseAll
    \/ ConnectionLost

Spec == Init /\ [][Next]_vars

\* The permission decision alone, for every configuration the environment
\* can give: one is_operation_allowed call per behaviour.
InitPerm ==
    /\ PoolInit
    /\ env \in Envs(perm_types, {Unset, "true"})
    /\ config = from_env(env)
    /\ allowed = NoCall
    /\ query = <<>>
    /\ classified = Unclassified
    /\ request = NoRequest
    /\ SvcIdle

IsOperationAllowed ==
    /\ allowed = NoCall
    /\ \E schema \in QuerySchemas, operation \in OperationType :
           allowed' = [schema |-> schema, operation |-> operation,
                       result |-> is_operation_allowed(config, schema,
                                                       operation)]
    /\ UNCHANGED <<pool_vars, app_vars, env, config, sql_vars, svc_vars>>

NextPerm == IsOperationAllowed

SpecPerm == InitPerm /\ [][NextPerm]_vars

\* The classifier alone, for every first statement of up to MaxTokens
\* top-level tokens.
InitClassify ==
    /\ PoolInit
    /\ env = EmptyEnv
    /\ config = from_env(env)
    /\ allowed = NoCall
    /\ \E ts \in SeqsUpTo(Tokens, MaxTokens) :
           query = <<[tokens |-> ts, schemas |-> {}]>>
    /\ classified = Unclassified
    /\ request = NoRequest
    /\ SvcIdle

Classify ==
    /\ classified = Unclassified
    /\ classified' = _extract_operation_type(query)
    /\ UNCHANGED <<pool_vars, app_vars, perm_vars, query, request, svc_vars>>

NextClassify == Classify

SpecClassify == InitClassify /\ [][NextClassify]_vars

\* One request to a handler, for every SQL text of up to MaxBatch statements
\* and every configuration of the SELECT and DELETE permissions.
InitRequest ==
    /\ PoolInit
    /\ env \in Envs({"select", "delete"}, {Unset})
    /\ config = from_env(env)
    /\ allowed = NoCall
    /\ query \in SeqsUpTo(Statements, MaxBatch)
    /\ classified = Unclassified
    /\ request = NoRequest
    /\ SvcIdle

ExecuteQuery ==
    /\ \E admitted \in BOOLEAN, k \in 0..MaxBatch : execute_query(admitted, k)
    /\ UNCHANGED <<pool_vars, app_vars, perm_vars, query, classified, svc_vars>>

\* against a database in which the SELECT statements are the ones with a
\* result set and rollback succeeds
ApiQuery ==
    /\ trace = NoRun
    /\ \E f \in 0..(2 + 2 * MaxBatch) :
           api_query(f,
                     [i \in 1..Len(query) |->
                         _extract_operation_type(<<query[i]>>) = "SELECT"],
                     FALSE)
    /\ UNCHANGED <<pool_vars, app_vars, perm_vars, query, classified, limiter_vars>>

NextRequest ==
    \/ ExecuteQuery
    \/ ApiQuery

SpecRequest == InitRequest /\ [][NextRequest]_vars

\* The handlers that hold a connection themselves, with the default
\* permissions: any call of the try block may raise, any statement may have a
\* result set, rollback may raise.
InitExec ==
    /\ PoolInit
    /\ PermIdle
    /\ query \in SeqsUpTo(Statements, MaxBatch)
    /\ classified = Unclassified
    /\ request = NoRequest
    /\ SvcIdle

ApiExec ==
    /\ trace = NoRun
    /\ \E f \in 0..(2 + 2 * MaxBatch), desc \in SeqsUpTo(BOOLEAN, MaxBatch),
          rollback_raises \in BOOLEAN :
           api_query(f, desc, rollback_raises)
    /\ UNCHANGED <<pool_vars, app_vars, perm_vars, query, classified, limiter_vars>>

\* the seeding script, run on its own
SynthesizeAndLoad ==
    /\ request = NoRequest
    /\ trace = NoRun
    /\ \E n \in 1..MaxBatch, f \in 0..(3 + MaxBatch),
          rollback_raises \in BOOLEAN :
           synthesize_and_load(n, f, rollback_raises)
    /\ UNCHANGED <<pool_vars, app_vars, perm_vars, sql_vars, limiter_vars>>

NextExec ==
    \/ ApiExec
    \/ SynthesizeAndLoad

SpecExec == InitExec /\ [][NextExec]_vars

\* One stream_query call with the default permissions.
InitStream ==
    /\ PoolInit
    /\ PermIdle
    /\ query \in {<<sSelect>>, <<sDelete>>, <<sBegin>>}
    /\ classified = Unclassified
    /\ request = NoRequest
    /\ SvcIdle

StreamQuery ==
    /\ trace = NoRun
    /\ \E n \in 0..MaxRows, batch_size \in 1..MaxBatchSize,
          description \in BOOLEAN, admitted \in BOOLEAN :
           stream_query(n, batch_size, description, admitted)
    /\ UNCHANGED <<pool_vars, app_vars, perm_vars, sql_vars, limiter_vars>>

NextStream == StreamQuery

SpecStream == InitStream /\ [][NextStream]_vars

\* Staleness: one call of _is_stale, or one _execute_sql.
InitStale ==
    /\ PoolInit
    /\ PermIdle
    /\ SqlIdle
    /\ SvcIdle

IsStale ==
    /\ trace = NoRun
    /\ \E value \in Values : is_stale_call(value)
    /\ UNCHANGED <<pool_vars, app_vars, perm_vars, sql_vars, limiter_vars>>

ExecuteSql ==
    /\ trace = NoRun
    /\ \E c \in 1..MaxCells :
       \E rows \in SeqsUpTo([1..c -> Cells], MaxResultRows),
          description \in BOOLEAN, expect_result \in BOOLEAN,
          admitted \in BOOLEAN :
           _execute_sql(rows, description, expect_result, admitted)
    /\ UNCHANGED <<pool_vars, app_vars, perm_vars, sql_vars, limiter_vars>>

NextStale ==
    \/ IsStale
    \/ ExecuteSql

SpecStale == InitStale /\ [][NextStale]_vars

\* copy_data over all schema and table names, INSERT permitted or not.
InitCopy ==
    /\ PoolInit
    /\ env \in {EnvOf(set, <<>>, Unset) : set \in SUBSET {"insert"}}
    /\ config = from_env(env)
    /\ allowed = NoCall
    /\ SqlIdle
    /\ SvcIdle

CopyData ==
    /\ trace = NoRun
    /\ \E schema \in Idents, table \in Idents,
          data \in {<<>>, <<<<[kind |-> "None"]>>>>},
          admitted \in BOOLEAN :
           copy_data(schema, table, data, admitted, FALSE)
    /\ UNCHANGED <<pool_vars, app_vars, perm_vars, sql_vars, limiter_vars>>

NextCopy == CopyData

SpecCopy == InitCopy /\ [][NextCopy]_vars

\* The serialization of copy_data and of rows_to_buffer over all rows, into
\* a table whose name is valid.
InitSerialize ==
    /\ PoolInit
    /\ env = EnvOf({"insert"}, <<>>, Unset)
    /\ config = from_env(env)
    /\ allowed = NoCall
    /\ SqlIdle
    /\ SvcIdle

CopyRows ==
    /\ trace = NoRun
    /\ \E c \in 1..MaxCells :
       \E data \in SeqsUpTo([1..c -> CopyCells], MaxResultRows),
          admitted \in BOOLEAN, enclosed_null \in BOOLEAN :
           copy_data(<<"a">>, <<"a", "1">>, data, admitted, enclosed_null)
    /\ UNCHANGED <<pool_vars, app_vars, perm_vars, sql_vars, limiter_vars>>

RowsToBuffer ==
    /\ trace = NoRun
    /\ \E c \in 1..MaxCells :
       \E data \in SeqsUpTo([1..c -> CopyCells], MaxResultRows),
          enclosed_null \in BOOLEAN :
           rows_to_buffer(data, enclosed_null)
    /\ UNCHANGED <<pool_vars, app_vars, perm_vars, sql_vars, limiter_vars>>

NextSerialize ==
    \/ CopyRows
    \/ RowsToBuffer

SpecSerialize == InitSerialize /\ [][NextSerialize]_vars

\* The limiter alone: MaxTasks requests on the one query_limiter, on one
\* event loop.
InitLimiter ==
    /\ PoolInit
    /\ PermIdle
    /\ SqlIdle
    /\ \E limit \in LimitValues, timeout \in TimeoutValues :
           limiter = QueryLimiter(limit, timeout)
    /\ tasks = [r \in Tasks |-> NoTask]
    /\ now = 0
    /\ trace = NoRun
    /\ AppIdle

EnterLimiter ==
    /\ \E r \in Tasks : Enter(r)
    /\ UNCHANGED <<pool_vars, app_vars, perm_vars, sql_vars, trace>>

AdmitWaiting ==
    /\ \E r \in Tasks : Admit(r)
    /\ UNCHANGED <<pool_vars, app_vars, perm_vars, sql_vars, trace>>

TimeoutWaiting ==
    /\ \E r \in Tasks : Timeout(r)
    /\ UNCHANGED <<pool_vars, app_vars, perm_vars, sql_vars, trace>>

LeaveLimiter ==
    /\ \E r \in Tasks, exc \in BOOLEAN, d \in {0, MaxBlock} : Leave(r, exc, d)
    /\ UNCHANGED <<pool_vars, app_vars, perm_vars, sql_vars, trace>>

TickLimiter ==
    /\ Tick
    /\ UNCHANGED <<pool_vars, app_vars, perm_vars, sql_vars, trace>>

NextLimiter ==
    \/ EnterLimiter
    \/ AdmitWaiting
    \/ TimeoutWaiting
    \/ LeaveLimiter
    \/ TickLimiter

SpecLimiter == InitLimiter /\ [][NextLimiter]_vars

\* The HTTP application: components are recorded and cleared, and requests
\* pass through AuthMiddleware to the router, under every setting of the two
\* environment variables.
InitHttp ==
    /\ PoolInit
    /\ PermIdle
    /\ SqlIdle
    /\ LimiterIdle
    /\ trace = NoRun
    /\ environ \in Environs
    /\ _COMPONENTS = NoComponents
    /\ response = NoResponse
    /\ manager = VerticaConnectionManager

SetComponentStatus ==
    /\ \E name \in ComponentNames, ready \in BOOLEAN,
          attempts \in {3} :
           _COMPONENTS' = set_component_status(_COMPONENTS, name,
               component_state(ready, attempts,
                               IF ready THEN None ELSE "RuntimeError: boom",
                               "2024-01-01T00:00:00Z",
                               IF ready THEN "2024-01-01T00:00:00Z"
                               ELSE None))
    /\ UNCHANGED <<pool_vars, perm_vars, sql_vars, svc_vars, environ,
                   response, manager>>

ResetHealthState ==
    /\ _COMPONENTS # NoComponents
    /\ _COMPONENTS' = NoComponents
    /\ UNCHANGED <<pool_vars, perm_vars, sql_vars, svc_vars, environ,
                   response, manager>>

HttpRequest ==
    /\ \E req \in Requests :
           response' = [request |-> req] @@ dispatch(req)
    /\ UNCHANGED <<pool_vars, perm_vars, sql_vars, svc_vars, environ,
                   _COMPONENTS, manager>>

NextHttp ==
    \/ SetComponentStatus
    \/ ResetHealthState
    \/ HttpRequest

SpecHttp == InitHttp /\ [][NextHttp]_vars

\* The manager: the server lifespan makes and initializes it, callers acquire
\* and release through it, against the pool it has or against the pool they
\* read from it just before a re-initialization replaced it, while
\* initialize_default runs in another thread and connections lose their
\* session.
InitManager ==
    /\ PoolInit
    /\ PermIdle
    /\ SqlIdle
    /\ SvcIdle

\* the manager is in use: the lifespan runs, or a manager was constructed
\* and nothing initialized it
InUse == trace.outcome = "running" \/ trace = NoRun

\* the values of self.pool a caller may have read: the pool the manager has
\* and the one it had before (pools are numbered as they are built)
Targets == {manager.pool} \cup {p \in {manager.pool - 1} : p >= NoPool}

\* the connections callers hold: those checked out of a pool and those that
\* were checked out when their pool was torn down
Held ==
    manager.torn \cup
    UNION {manager.pools[p].checked_out_connections :
             p \in 1..Len(manager.pools)}

\* the connection at the head of the queue of the manager's pool
Known ==
    IF manager.pool = NoPool
    THEN {}
    ELSE IF manager.pools[manager.pool].pool = <<>>
    THEN {}
    ELSE {Head(manager.pools[manager.pool].pool)}

LifespanEnter ==
    /\ trace = NoRun
    /\ manager = VerticaConnectionManager
    /\ \E k \in {0, ConnectionLimit} :
          LET r == server_lifespan_enter(manager, from_env_config, k)
          IN  /\ manager' = r.manager
              /\ _COMPONENTS' = r.components
              /\ trace' = [handler |-> "server_lifespan", calls |-> <<>>,
                           outcome |-> r.outcome]
    /\ UNCHANGED <<pool_vars, perm_vars, sql_vars, limiter_vars, environ,
                   response>>

LifespanExit ==
    /\ trace.handler = "server_lifespan"
    /\ trace.outcome = "running"
    /\ manager.call = NoCall_
    /\ LET r == server_lifespan_exit(manager)
       IN  /\ manager' = r.manager
           /\ _COMPONENTS' = r.components
           /\ trace' = [trace EXCEPT !.outcome = r.outcome]
    /\ UNCHANGED <<pool_vars, perm_vars, sql_vars, limiter_vars, environ,
                   response>>

InitializeDefaultBegin ==
    /\ trace.outcome = "running"
    /\ manager.call = NoCall_
    /\ Len(manager.pools) < MaxPools
    /\ \E cfg \in Configs \ {manager.config} :
           manager' = initialize_default_begin(manager, cfg)
    /\ UNCHANGED <<pool_vars, perm_vars, sql_vars, svc_vars, environ,
                   _COMPONENTS, response>>

InitializeDefaultBuild ==
    /\ manager.call # NoCall_
    /\ \E k \in {0, ConnectionLimit} :
          /\ manager.created + k <= MaxConn
          /\ manager' = initialize_default_build(manager, k)
    /\ UNCHANGED <<pool_vars, perm_vars, sql_vars, svc_vars, environ,
                   _COMPONENTS, response>>

ManagerGet ==
    /\ InUse
    /\ \E p \in Targets, ok \in BOOLEAN, k \in {0, ConnectionLimit} :
          LET m == manager_get_connection(manager, p, ok, k)
          IN  /\ m.created <= MaxConn
              /\ manager' = m
    /\ UNCHANGED <<pool_vars, perm_vars, sql_vars, svc_vars, environ,
                   _COMPONENTS, response>>

ManagerRelease ==
    /\ InUse
    /\ \E p \in Targets, conn \in Held \cup {Foreign}, ok \in BOOLEAN :
          LET m == manager_release_connection(manager, p, conn, ok)
          IN  /\ m.created <= MaxConn
              /\ manager' = m
    /\ UNCHANGED <<pool_vars, perm_vars, sql_vars, svc_vars, environ,
                   _COMPONENTS, response>>

ManagerCloseAll ==
    /\ InUse
    /\ manager' = manager_close_all(manager)
    /\ UNCHANGED <<pool_vars, perm_vars, sql_vars, svc_vars, environ,
                   _COMPONENTS, response>>

ManagerConnectionLost ==
    /\ InUse
    /\ \E conn \in Known \ manager.closed :
           manager' = [manager EXCEPT !.closed = @ \cup {conn}]
    /\ UNCHANGED <<pool_vars, perm_vars, sql_vars, svc_vars, environ,
                   _COMPONENTS, response>>

NextManager ==
    \/ LifespanEnter
    \/ LifespanExit
    \/ InitializeDefaultBegin
    \/ InitializeDefaultBuild
    \/ ManagerGet
    \/ ManagerRelease
    \/ ManagerCloseAll
    \/ ManagerConnectionLost

SpecManager == InitManager /\ [][NextManager]_vars

\* One request to execute_query or stream_query, for every SQL text of up to
\* MaxBatch statements and every setting of the global SELECT and DELETE
\* permissions, with the limiter free or full and any number of the pool's
\* connections held by other requests.
InitFlow ==
    /\ PoolInit
    /\ env \in {EnvOf(set, <<>>, Unset) : set \in SUBSET {"select", "delete"}}
    /\ config = from_env(env)
    /\ allowed = NoCall
    /\ query \in SeqsUpTo(Statements, MaxBatch)
    /\ classified = Unclassified
    /\ request = NoRequest
    /\ \E full \in BOOLEAN :
          limiter = IF full
                    THEN [QueryLimiter(1, default_timeout) EXCEPT
                            !._sem = 0, !._acquired = TRUE]
                    ELSE QueryLimiter(1, default_timeout)
    /\ tasks = [r \in Tasks |-> NoTask]
    /\ now = 0
    /\ trace = NoRun
    /\ environ = NoEnviron
    /\ _COMPONENTS = NoComponents
    /\ response = NoResponse
    /\ \E n \in 0..ConnectionLimit : manager = InitializedManager(n)

FlowReceive ==
    /\ trace = NoRun
    /\ \E handler \in {"execute_query", "stream_query"} :
           trace' = Received(handler)
    /\ UNCHANGED <<pool_vars, perm_vars, sql_vars, limiter_vars, app_vars>>

FlowClassify ==
    /\ trace.outcome = "received"
    /\ classified' = _extract_operation_type(query)
    /\ trace' = flow_classify(trace)
    /\ UNCHANGED <<pool_vars, perm_vars, query, request, limiter_vars,
                   app_vars>>

FlowAuthorize ==
    /\ trace.outcome = "classified"
    /\ trace' = flow_authorize(trace, config, query)
    /\ UNCHANGED <<pool_vars, perm_vars, sql_vars, limiter_vars, app_vars>>

FlowAdmit ==
    /\ trace.outcome = "authorized"
    /\ LET r == flow_admit(trace, limiter)
       IN  trace' = r.trace /\ limiter' = r.limiter
    /\ UNCHANGED <<pool_vars, perm_vars, sql_vars, tasks, now, app_vars>>

FlowAcquire ==
    /\ trace.outcome = "admitted"
    /\ \E ok \in BOOLEAN, k \in {0, ConnectionLimit} :
          LET r == flow_acquire(trace, limiter, manager, ok, k)
          IN  /\ r.manager.created <= MaxConn
              /\ trace' = r.trace
              /\ limiter' = r.limiter
              /\ manager' = r.manager
    /\ UNCHANGED <<pool_vars, perm_vars, sql_vars, tasks, now, environ,
                   _COMPONENTS, response>>

FlowExecute ==
    /\ trace.outcome = "executing"
    /\ \E ok \in BOOLEAN : trace' = flow_execute(trace, ok)
    /\ UNCHANGED <<pool_vars, perm_vars, sql_vars, limiter_vars, app_vars>>

FlowRelease ==
    /\ trace.outcome \in {"executed", "raised"}
    /\ \E ok \in BOOLEAN :
          LET r == flow_release(trace, manager, ok)
          IN  /\ r.manager.created <= MaxConn
              /\ trace' = r.trace
              /\ manager' = r.manager
    /\ UNCHANGED <<pool_vars, perm_vars, sql_vars, limiter_vars, environ,
                   _COMPONENTS, response>>

FlowLeave ==
    /\ trace.outcome \in {"releasing", "unwinding"}
    /\ LET r == flow_leave(trace, limiter)
       IN  trace' = r.trace /\ limiter' = r.limiter
    /\ UNCHANGED <<pool_vars, perm_vars, sql_vars, tasks, now, app_vars>>

\* the session of the connection at the head of the pool's queue ends
FlowConnectionLost ==
    /\ trace.outcome \in {"received", "executing"}
    /\ \E conn \in (Known \cup {trace.conn}) \ ({Foreign} \cup manager.closed) :
           manager' = [manager EXCEPT !.closed = @ \cup {conn}]
    /\ UNCHANGED <<pool_vars, perm_vars, sql_vars, svc_vars, environ,
                   _COMPONENTS, response>>

NextFlow ==
    \/ FlowReceive
    \/ FlowClassify
    \/ FlowAuthorize
    \/ FlowAdmit
    \/ FlowAcquire
    \/ FlowExecute
    \/ FlowRelease
    \/ FlowLeave
    \/ FlowConnectionLost

SpecFlow == InitFlow /\ [][NextFlow]_vars

(***************************************************************************)
(* Properties of the connection pool.                                      *)
(***************************************************************************)

\* The step is a call of a pool method (not a lost session).
CallStep == last'.tick # last.tick

GetStep == CallStep /\ last'.op = "get_connection"

ReleaseStep == CallStep /\ last'.op = "release_connection"

\* get_connection returned a connection / raised.
Returned == {"ok", "replaced"}

Raised == {"exhausted", "timeout", "connect_error"}

NumCheckedOut == Cardinality(checked_out_connections)

\* C1: in every reachable state the number of checked-out connections plus
\* the number of free (queued) connections is at most connection_limit.
C1_PoolBounded == NumCheckedOut + Len(pool) <= ConnectionLimit

\* C1 witness: after a rebuild, connections are handed out again and the
\* pool is at its limit with some checked out and some free.
C1_Witness ==
    /\ created > ConnectionLimit
    /\ last.prev_result = "connect_error"
    /\ checked_out_connections # {}
    /\ pool # <<>>
    /\ NumCheckedOut + Len(pool) = ConnectionLimit

\* C2: no connection is in the free queue and in the checked-out set at the
\* same time.
C2_FreeAndCheckedOutDisjoint ==
    Range(pool) \cap checked_out_connections = {}

\* C2 witness: a connection that was released is released once more while
\* another connection is still checked out.
C2_Witness ==
    /\ last.op = "release_connection"
    /\ last.result = "ignored"
    /\ last.prev_op = "release_connection"
    /\ last.prev_result = "returned"
    /\ last.conn \in Range(pool)
    /\ checked_out_connections # {}

\* C3 (as claimed): whenever get_connection raises, the checked-out set and
\* the active_connections counter have the size they had before the call.
C3_RaiseKeepsCheckedOut ==
    [][(GetStep /\ last'.result \in Raised) =>
          /\ Cardinality(checked_out_connections') = NumCheckedOut
          /\ active_connections' = active_connections]_vars

\* C4: releasing a connection that is not tracked as checked out returns
\* normally and leaves the free queue, the checked-out set and the active
\* counter unchanged.
C4_UntrackedReleaseIsNoOp ==
    [][(ReleaseStep /\ last'.conn \notin checked_out_connections) =>
          /\ last'.result = "ignored"
          /\ UNCHANGED <<pool, checked_out_connections, active_connections>>]_vars

\* C4 witness: a connection the pool never handed out was released while the
\* pool had free and checked-out connections.
C4_Witness ==
    /\ last.op = "release_connection"
    /\ last.result = "ignored"
    /\ last.conn = Foreign
    /\ pool # <<>>
    /\ checked_out_connections # {}

\* C5: the release of a tracked connection that reports itself closed never
\* puts it in the free queue; a fresh connection is queued in its place, or,
\* when that connection cannot be created, the release returns normally with
\* the free queue unchanged; either way the checked-out count drops by one.
C5_ClosedReleaseReplacedOrDropped ==
    [][(/\ ReleaseStep
        /\ last'.conn \in checked_out_connections
        /\ last'.conn \in closed) =>
          /\ last'.result \in {"replaced", "dropped"}
          /\ last'.conn \notin Range(pool')
          /\ checked_out_connections' = checked_out_connections \ {last'.conn}
          /\ active_connections' = active_connections - 1
          /\ last'.result = "replaced" =>
                /\ created' = created + 1
                /\ pool' = Append(pool, created')
                /\ created' \notin closed'
          /\ last'.result = "dropped" =>
                /\ pool' = pool
                /\ created' = created]_vars

\* C5 witness: a closed connection was released, its replacement could not
\* be created, and the pool holds fewer connections than its limit.
C5_Witness ==
    /\ last.op = "release_connection"
    /\ last.result = "dropped"
    /\ last.conn \in closed
    /\ NumCheckedOut + Len(pool) < ConnectionLimit

\* C6: a connection that get_connection hands out does not report itself
\* closed at that moment; when the connection at the head of the free queue
\* is closed, the call returns a newly created connection or raises.
C6_HandedOutIsOpen ==
    [][/\ \A c \in checked_out_connections' \ checked_out_connections :
             c \notin closed'
       /\ (GetStep /\ last'.result \in Returned) =>
             /\ last'.conn \in checked_out_connections'
             /\ last'.conn \notin closed'
       /\ (GetStep /\ pool # <<>> /\ Head(pool) \in closed) =>
             \/ last'.result \in Raised
             \/ /\ last'.result = "replaced"
                /\ last'.conn = created + 1
                /\ created' = created + 1]_vars

\* C6 witness: a closed connection was found in the free queue and a new one
\* was handed out in its place.
C6_Witness ==
    /\ last.op = "get_connection"
    /\ last.result = "replaced"
    /\ last.conn = created
    /\ last.conn \in checked_out_connections

\* C7: close_all closes every free and every checked-out connection and
\* leaves the free queue empty, the checked-out set empty and the active
\* count 0; called again right after, it returns normally and changes no
\* field of the pool and closes nothing.
C7_CloseAllClosesAndIsIdempotent ==
    [][(CallStep /\ last'.op = "close_all") =>
          /\ last'.result = "ok"
          /\ Range(pool) \cup checked_out_connections \subseteq closed'
          /\ pool' = <<>>
          /\ checked_out_connections' = {}
          /\ active_connections' = 0
          /\ last.op = "close_all" =>
                UNCHANGED <<pool, checked_out_connections, active_connections,
                            rebuild_attempts, closed, created>>]_vars

\* C7 witness: close_all was called twice in a row on a constructed pool, and
\* every connection the pool ever created is closed.
C7_Witness ==
    /\ last.op = "close_all"
    /\ last.prev_op = "close_all"
    /\ created >= ConnectionLimit
    /\ \A c \in 1..created : c \in closed

\* C8 (as claimed): an acquire that finds the free queue empty while the pool
\* holds fewer than connection_limit connections creates a connection and
\* returns it (or fails in connect); and the acquire that follows the release
\* of a healthy connection hands out a connection that was free, not a new
\* one: the released connection itself when it is the only free one.  The
\* first half is stated for a pool in use (a connection is checked out),
\* which leaves out the acquire on a pool that close_all has emptied.
C8_CreatesOnDemandAndReuses ==
    [][/\ (/\ GetStep
           /\ pool = <<>>
           /\ checked_out_connections # {}
           /\ NumCheckedOut + Len(pool) < ConnectionLimit) =>
             \/ last'.result = "connect_error"
             \/ /\ last'.result \in Returned
                /\ last'.conn = created + 1
                /\ created' = created + 1
       /\ (/\ GetStep
           /\ last.op = "release_connection"
           /\ last.result = "returned"
           /\ closed \cap Range(pool) = {}) =>
             /\ last'.result = "ok"
             /\ created' = created
             /\ last'.conn \in Range(pool)
             /\ pool = <<last.conn>> => last'.conn = last.conn]_vars

\* C9 (as claimed): constructing a pool opens no connection; connect() is not
\* called before the first acquire.
C9_ConstructionIsLazy ==
    last.op \in {"none", "__init__"} => created = 0

\* C10 (as claimed): after an acquire that failed because connect() raised,
\* the next acquire on the same pool succeeds unless connect() raises again.
C10_RecoversAfterConnectFailure ==
    (/\ last.op = "get_connection"
     /\ last.prev_op = "get_connection"
     /\ last.prev_result = "connect_error"
     /\ last.result # "connect_error") =>
        last.result \in Returned
CloseAllStep == CallStep /\ last'.op = "close_all"

\* release_connection took conn out of the checked-out set.
Released == {"returned", "replaced", "dropped", "blocked"}

\* C11 (as claimed): a get_connection called while every connection is
\* checked out does not fail before it has waited, and a get_connection that
\* has waited ends with a connection or with the pool timeout.
C11_ExhaustedAcquireWaits ==
    [][/\ (GetStep /\ ~waiting /\ NumCheckedOut >= ConnectionLimit) =>
              last'.result \in Returned
       /\ (GetStep /\ waiting) =>
              last'.result \in Returned \cup {"timeout"}]_vars

\* C12 (as claimed): while a get_connection waits for a free connection the
\* pool lock is free, so release_connection and close_all can run.
C12_LockFreeWhileWaiting ==
    waiting => /\ lock = "free"
               /\ ENABLED CloseAll
               /\ ENABLED Release

PermOf(perms, operation) ==
    CASE operation = "SELECT" -> perms.select
      [] operation = "INSERT" -> perms.insert
      [] operation = "UPDATE" -> perms.update
      [] operation = "DELETE" -> perms.delete
      [] operation = "DDL" -> perms.ddl

GlobalFlag(operation) ==
    CASE operation = "SELECT" -> config.allow_select
      [] operation = "INSERT" -> config.allow_insert
      [] operation = "UPDATE" -> config.allow_update
      [] operation = "DELETE" -> config.allow_delete
      [] operation = "DDL" -> config.allow_ddl

\* C15 (as claimed): with read_only set in the environment,
\* is_operation_allowed returns false for INSERT, UPDATE, DELETE and DDL on
\* every schema.
C15_ReadOnlyDenies ==
    (/\ env.READ_ONLY = "true"
     /\ allowed.operation \in OperationType \ {"SELECT"}) =>
        allowed.result = FALSE

\* C16: for a schema with a per-schema override is_operation_allowed returns
\* the override's value for the operation, whatever the global flag is; for a
\* schema without an override it returns the global flag of the operation.
C16_OverrideWinsElseGlobal ==
    allowed.operation \in OperationType =>
        IF Lower(allowed.schema) \in DOMAIN config.schema_permissions
        THEN allowed.result =
                 PermOf(config.schema_permissions[Lower(allowed.schema)],
                        allowed.operation)
        ELSE allowed.result = GlobalFlag(allowed.operation)

\* DELETE was asked for a schema whose override allows it while the global
\* flag forbids it, and was allowed.
C16_Witness ==
    /\ allowed.operation = "DELETE"
    /\ allowed.schema = "Reporting"
    /\ "reporting" \in DOMAIN config.schema_permissions
    /\ config.schema_permissions["reporting"].delete
    /\ ~config.allow_delete
    /\ allowed.result = TRUE
\* the request was refused by the permission check
Refused == {"PermissionError", "403"}

\* the keywords _extract_operation_type maps to an operation
Mapped == {"SELECT", "INSERT", "UPDATE", "DELETE", "CREATE", "ALTER", "DROP",
           "TRUNCATE"}

\* the leading keyword of a statement, "" if it has no token
Leading(stmt) ==
    IF token_next(stmt.tokens) = 0 THEN ""
    ELSE Upper(stmt.tokens[token_next(stmt.tokens)].value)

\* the schemas a statement is to be checked for by the handler of the
\* request: its own, or the handler's key for "no schema"
OwnSchemas(stmt) ==
    schemas_or({Lower(s) : s \in stmt.schemas},
               IF request.path = "api_query" THEN "default" ELSE "")

\* C17 (as claimed): a request of one statement with an operation type and no
\* schema is permission-checked, under a key that no configured per-schema
\* override has, and is refused exactly if the global flag of its operation
\* is off.
C17_NoSchemaDecidedByGlobalFlag ==
    (/\ request.path # "none"
     /\ Len(query) = 1
     /\ query[1].schemas = {}
     /\ mapping(Leading(query[1])) # None) =>
        /\ request.checked # {}
        /\ \A c \in request.checked :
               c[1] \notin DOMAIN config.schema_permissions
        /\ request.outcome \in Refused <=>
               ~GlobalFlag(mapping(Leading(query[1])))

\* C18 (as claimed): on either handler, if the configuration refuses one
\* statement of the text for that statement's own operation and schemas, no
\* statement of the text is executed.
C18_BatchPreAuthorized ==
    (/\ request.path # "none"
     /\ \E i \in 1..Len(query) :
           /\ mapping(Leading(query[i])) # None
           /\ \E s \in OwnSchemas(query[i]) :
                  ~is_operation_allowed(config, s,
                                        mapping(Leading(query[i])))) =>
        request.executed = 0

\* C19 (as claimed): a request of one statement whose leading keyword is none
\* of the eight is not checked and not refused; and every executed statement
\* whose leading keyword is one of the eight has been checked, with its
\* operation, for each of its schemas.
C19_CheckedIffMappedKeyword ==
    request.path # "none" =>
        /\ (Len(query) = 1 /\ Leading(query[1]) \notin Mapped) =>
               /\ request.checked = {}
               /\ request.outcome \notin Refused
        /\ \A i \in 1..request.executed :
               Leading(query[i]) \in Mapped =>
                   \A s \in OwnSchemas(query[i]) :
                       <<s, mapping(Leading(query[i]))>> \in request.checked

\* C20 (as claimed): a statement that begins with WITH and the CTE
\* definitions classifies as the operation of the DML keyword that follows.
C20_CteClassifiedByMainStatement ==
    (/\ classified # Unclassified
     /\ Len(query[1].tokens) >= 3
     /\ query[1].tokens[1] = tWITH
     /\ query[1].tokens[2] = tCte
     /\ query[1].tokens[3].ttype = "Keyword.DML") =>
        classified = mapping(Upper(query[1].tokens[3].value))

(***************************************************************************)
(* Properties of the query limiter.                                        *)
(***************************************************************************)
Inside == {r \in Tasks : tasks[r].pc = "inside"}
Waiters == {r \in Tasks : tasks[r].pc = "waiting"}
Finished == {r \in Tasks : tasks[r].pc \in {"done", "raised"}}

\* C21: at no time are more requests inside the limiter-guarded section
\* than the configured ceiling, which is at least 1 and is 4 by default,
\* whatever the interleaving of entering, finishing, failing and timing out.
C21_InsideAtMostCeiling ==
    /\ Cardinality(Inside) <= limiter.ceiling
    /\ limiter.ceiling >= 1
    /\ limiter._sem >= 0
    /\ QueryLimiter(default_limit, default_timeout).ceiling = 4

\* the guarded section is full and a further request is kept out
C21_Witness ==
    /\ Cardinality(Inside) = limiter.ceiling
    /\ Waiters # {}
    /\ Finished # {}

\* C22: every successful acquire is matched by exactly one release when the
\* guarded work ends, so once all admitted requests have finished the number
\* of free slots is back at the ceiling.
C22_SlotsRestored == Inside = {} => limiter._sem = limiter.ceiling

\* C23: a request that gets no slot within the wait bound ends with
\* TooManyRequestsError without executing its statement and without taking
\* or releasing a slot, and it never waits beyond the bound.
C23_NeverWaitsBeyondBound ==
    /\ \A r \in Tasks : tasks[r].pc = "rejected" => ~tasks[r].executed
    /\ \A r \in Waiters : now <= tasks[r].deadline


(***************************************************************************)
(* Properties of the handlers' use of a connection.                        *)
(***************************************************************************)
CallsOf(op) == {j \in 1..Len(trace.calls) : trace.calls[j].op = op}
Obtained ==
    \E j \in CallsOf("get_connection") : ~trace.calls[j].raised
\* the call of the try block that raised
Failure == {j \in 1..Len(trace.calls) :
               /\ trace.calls[j].raised
               /\ trace.calls[j].op # "rollback"}

\* C24: a connection obtained from the pool for a request is released
\* exactly once, as the last call of the request, on every exit path: success,
\* an execution error, an exception of cursor creation, fetch, commit or
\* rollback; a request that obtained none releases none.
C24_ReleasedExactlyOnce ==
    /\ Obtained =>
         /\ Cardinality(CallsOf("release_connection")) = 1
         /\ trace.calls[Len(trace.calls)].op = "release_connection"
    /\ ~Obtained => CallsOf("release_connection") = {}

\* the cursor was created, a later call raised and so did the rollback
C24_Witness ==
    /\ Obtained
    /\ \E j \in Failure : trace.calls[j].op \in {"fetchall", "commit"}
    /\ \E j \in CallsOf("rollback") : trace.calls[j].raised
    /\ CallsOf("release_connection") # {}

\* C25: when a call on the obtained connection fails, rollback is called
\* after the failure and before the release, commit is not called after the
\* failure, and the request ends with an error.
C25_RollbackBeforeRelease ==
    \A j \in Failure :
        Obtained =>
            /\ \E b \in CallsOf("rollback") :
                   /\ j < b
                   /\ \A l \in CallsOf("release_connection") : b < l
            /\ \A c \in CallsOf("commit") : c <= j
            /\ trace.outcome \in {"400", "rollback error", "raised"}

\* the second statement fails after the first one was committed
C25_Witness ==
    /\ \E j \in Failure : trace.calls[j].op = "execute" /\ trace.calls[j].stmt = 2
    /\ CallsOf("commit") # {}
    /\ CallsOf("rollback") # {}
    /\ trace.outcome = "400"

(***************************************************************************)
(* Properties of streaming.                                                *)
(***************************************************************************)
Streamed == trace.handler = "stream_query" /\ trace.outcome = "rows_streamed"

\* the rows of the messages j..Len(calls), one after the other
RECURSIVE RowsFrom(_)
RowsFrom(j) ==
    IF j > Len(trace.calls) THEN <<>>
    ELSE trace.calls[j].rows \o RowsFrom(j + 1)

\* C26: streaming a result of N rows with batch size B >= 1 sends one
\* column-header message first, then ceil(N/B) row-batch messages in result
\* order, each of B rows except possibly the last, and reports a total of N;
\* a statement without a result set sends nothing and reports zero.
C26_HeaderThenBatches ==
    Streamed =>
        LET N == trace.args.rows
            B == trace.args.batch_size
            m == Len(trace.calls)
        IN  IF trace.args.description
            THEN /\ m = 1 + (N + B - 1) \div B
                 /\ trace.calls[1].kind = "columns"
                 /\ \A j \in 2..m :
                        /\ trace.calls[j].kind = "rows"
                        /\ j < m => Len(trace.calls[j].rows) = B
                        /\ Len(trace.calls[j].rows) \in 1..B
                 /\ RowsFrom(2) = result_rows(N)
                 /\ trace.rows_streamed = N
            ELSE /\ trace.calls = <<>>
                 /\ trace.rows_streamed = 0

\* 7 rows in batches of 3: batches of 3, 3 and 1
C26_Witness ==
    /\ Streamed
    /\ trace.args.rows = 7
    /\ trace.args.batch_size = 3
    /\ Len(trace.calls) = 4
    /\ Len(trace.calls[4].rows) = 1
    /\ trace.rows_streamed = 7

(***************************************************************************)
(* Properties of staleness.                                                *)
(***************************************************************************)
\* the value is a timestamp: a datetime, epoch seconds or a timestamp text
\* in one of the shapes the formats of _is_stale name
IsTimestamp(v) ==
    \/ v.kind = "datetime"
    \/ v.kind = "number" /\ v.in_range
    \/ v.kind = "str" /\ \E fmt \in formats : strptime_ok(v, fmt)

\* C27: a timestamp is stale exactly when its age is greater than 3600
\* seconds; a missing, empty or unparseable timestamp is stale.
C27_StaleIffOlderThanHour ==
    trace.handler = "_is_stale" =>
        /\ trace.outcome = "returned"
        /\ trace.stale = IF IsTimestamp(trace.args)
                         THEN (utc_now - trace.args.ts) > stale_after
                         ELSE TRUE

\* C28: the stale flag of a response with a result set is true exactly when
\* at least one datetime-typed cell anywhere in the returned rows is older
\* than the threshold.
C28_StaleIffSomeOldDatetimeCell ==
    (trace.handler = "_execute_sql" /\ trace.outcome = "rows") =>
        trace.stale =
            (\E i \in 1..Len(trace.args.rows) :
             \E j \in 1..Len(trace.args.rows[i]) :
                 /\ trace.args.rows[i][j].kind = "datetime"
                 /\ (utc_now - trace.args.rows[i][j].ts) > stale_after)

(***************************************************************************)
(* Properties of bulk load.                                                *)
(***************************************************************************)
Copy == trace.handler = "copy_data"
NothingIssued ==
    /\ trace.copy_sql = <<>>
    /\ trace.calls = <<>>
    /\ ~trace.entered

\* C29 as stated: a schema or table name that does not match the pattern
\* makes copy_data fail with an invalid-identifier error before any COPY
\* statement is built or issued and before the limiter is entered.
C29_InvalidNameFailsBeforeCopy ==
    (Copy /\ (~fullmatch(trace.args.schema) \/ ~fullmatch(trace.args.table)))
        => (trace.outcome = "ValueError" /\ NothingIssued)

\* C29, amended: a table name, or a non-empty schema name, that does not
\* match the pattern makes copy_data fail before any COPY statement is built
\* or issued and before the limiter is entered, with an invalid-identifier
\* error when INSERT is permitted and with a permission error otherwise; an
\* empty schema is not checked and leaves the table name unqualified; and
\* _sanitize_ident returns a matching name unchanged.
C29_InvalidNameFailsBeforeCopyIfPermitted ==
    /\ (Copy /\ (~fullmatch(trace.args.table)
                 \/ (trace.args.schema # <<>>
                     /\ ~fullmatch(trace.args.schema)))) =>
           /\ NothingIssued
           /\ trace.outcome = IF config.allow_insert THEN "ValueError"
                              ELSE "PermissionError"
    /\ (Copy /\ trace.copy_sql # <<>>) =>
           /\ fullmatch(trace.args.table)
           /\ trace.copy_sql =
                IF trace.args.schema = <<>> THEN trace.args.table
                ELSE lower(trace.args.schema) \o <<".">> \o trace.args.table
    /\ \A name \in Idents :
           fullmatch(name) => _sanitize_ident(name) =
                                  [raised |-> FALSE, value |-> name]

\* the table name "1a" with INSERT permitted
C29_Witness ==
    /\ Copy
    /\ config.allow_insert
    /\ trace.args.schema = <<"A">>
    /\ trace.args.table = <<"1", "a">>
    /\ trace.outcome = "ValueError"

\* C30: serialization writes every null cell as \N, one row per line, every
\* field quote-enclosed, and the loaded table holds null for exactly the
\* cells that were null.
C30_NullRoundTrip ==
    (trace.handler \in {"copy_data", "rows_to_buffer"}
     /\ trace.outcome \in {"rows_copied", "returned"}) =>
        /\ Len(trace.buffer) = Len(trace.args.data)
        /\ \A i \in 1..Len(trace.args.data) :
           \A j \in 1..Len(trace.args.data[i]) :
               /\ trace.buffer[i][j].quoted
               /\ trace.args.data[i][j].kind = "None" =>
                      trace.buffer[i][j].text = "\\N"
               /\ (trace.calls[1].stored[i][j].kind = "None")
                      = (trace.args.data[i][j].kind = "None")

(***************************************************************************)
(* Properties of the pool's counter.                                       *)
(***************************************************************************)
\* C37: in every reachable state of a pool the active_connections counter
\* equals the size of the checked-out set, after any interleaving of
\* get_connection, release_connection, close_all and rebuilds, including
\* calls that raise.
C37_CounterIsCheckedOutSize == active_connections = NumCheckedOut

\* a get_connection has raised while connections are checked out
C37_Witness ==
    /\ last.op = "get_connection"
    /\ last.result \in Raised
    /\ active_connections >= 1
    /\ NumCheckedOut >= 1

(***************************************************************************)
(* Properties of per-schema entries, stated on the environment.            *)
(***************************************************************************)
\* the SCHEMA_*_PERMISSIONS variable of an operation
TypeOf(operation) ==
    CASE operation = "SELECT" -> "select"
      [] operation = "INSERT" -> "insert"
      [] operation = "UPDATE" -> "update"
      [] operation = "DELETE" -> "delete"
      [] operation = "DDL" -> "ddl"

\* the schema a pair of the environment names
KeyOf(pair) == Lower(Strip(pair.schema))

\* some SCHEMA_*_PERMISSIONS variable names the schema
Named(name) ==
    \E t \in perm_types : \E i \in 1..Len(env.pairs[t]) :
        KeyOf(env.pairs[t][i]) = name

\* the variable of the operation grants it to the schema: its last pair for
\* the schema says true
Granted(name, operation) ==
    LET ps == env.pairs[TypeOf(operation)]
    IN  \E i \in 1..Len(ps) :
            /\ KeyOf(ps[i]) = name
            /\ Lower(Strip(ps[i].value)) = "true"
            /\ \A j \in (i + 1)..Len(ps) : KeyOf(ps[j]) # name

\* C40: for a schema that has a per-schema entry the decision for every
\* operation comes from that entry alone: an operation the entry does not
\* grant is denied even when the global flag is true, and the schema name
\* passed to is_operation_allowed is matched without regard to case.
C40_EntryAloneDecides ==
    (allowed.operation \in OperationType /\ Named(Lower(allowed.schema))) =>
        allowed.result = Granted(Lower(allowed.schema), allowed.operation)

\* "reporting" is named only in SCHEMA_DELETE_PERMISSIONS; SELECT on
\* "Reporting" is denied while the global SELECT flag is true
C40_Witness ==
    /\ allowed.operation = "SELECT"
    /\ allowed.schema = "Reporting"
    /\ Named("reporting")
    /\ env.pairs["select"] = <<>>
    /\ env.pairs["delete"] # <<>>
    /\ config.allow_select
    /\ allowed.result = FALSE

\* an HTTP request was answered
Answered == response.status_code # 0

\* The step is a request (it records no component) that the health endpoint
\* answers.
HealthStep == response'.handler = "/healthz" /\ UNCHANGED _COMPONENTS

SomeNotReady == \E n \in DOMAIN _COMPONENTS : ~_COMPONENTS[n].ready

\* C31 (as claimed): the health endpoint answers ok=true with status 200 when
\* no component is recorded or all recorded components are ready, and
\* ok=false with status 503 and every component's recorded state when some
\* recorded component is not ready.
C31_HealthStatusFollowsComponents ==
    [][HealthStep =>
        /\ response'.body.components = _COMPONENTS
        /\ ~SomeNotReady =>
               response'.body.ok /\ response'.status_code = 200
        /\ SomeNotReady =>
               ~response'.body.ok /\ response'.status_code = 503]_vars

\* The token the server is configured with, if any.
TokenConfigured == environ.MCP_HTTP_TOKEN \notin {Unset, ""}

Exempt == {"/healthz", "/_alive"}

SuppliesToken ==
    \/ response.request.X_API_Key = environ.MCP_HTTP_TOKEN
    \/ response.request.token = environ.MCP_HTTP_TOKEN

\* C32: with MCP_HTTP_TOKEN configured, a request to a path other than
\* /healthz and /_alive runs its handler only if it carries that exact token
\* as X-API-Key header or as token query parameter, and any such request that
\* does not run its handler for want of the token is answered 401; requests
\* to /healthz and /_alive run their handler whatever token they carry.
C32_TokenGuardsHandlers ==
    Answered =>
        /\ (TokenConfigured /\ response.handler \notin Exempt \cup {None}) =>
               SuppliesToken
        /\ (/\ TokenConfigured
            /\ rstrip_or_root(response.request.path) \notin Exempt
            /\ ~SuppliesToken) =>
               response.status_code = 401 /\ response.handler = None
        /\ (response.request.path.slashes = 0
               /\ response.request.path.stem \in Exempt) =>
               response.handler = response.request.path.stem

C32_Witness ==
    /\ TokenConfigured
    /\ Answered
    /\ response.request.path = [stem |-> "/protected", slashes |-> 0]
    /\ response.request.X_API_Key = "wrong"
    /\ response.request.token = "secret"
    /\ response.status_code = 401
    /\ response.handler = None

\* The step is a call on the manager (it changes what the latest call was).
ManagerStep(op) == manager'.last # manager.last /\ manager'.last.op = op

\* the i-th pool object the manager built
PoolObject(i) == manager.pools[i]

\* C33 (as claimed): a failing initialization does not keep the lifespan from
\* starting; the component "vertica" is recorded, ready while the lifespan
\* runs with an initialized manager and not ready after the lifespan has
\* ended, when the manager's pool has been closed.
C33_LifespanRecordsAndRecovers ==
    trace.handler = "server_lifespan" =>
        /\ trace.outcome # "raised"
        /\ "vertica" \in DOMAIN _COMPONENTS
        /\ trace.outcome = "exited" =>
               /\ ~_COMPONENTS["vertica"].ready
               /\ PoolObject(manager.pool).pool = <<>>
               /\ PoolObject(manager.pool).checked_out_connections = {}

\* The step begins an initialize_default call / ends one by returning.
BeginStep == manager.call = NoCall_ /\ manager'.call # NoCall_

ReturnStep ==
    /\ manager.call # NoCall_
    /\ manager'.call = NoCall_
    /\ manager'.last.result = "ok"

\* the connections a pool object knows
ConnsOf(pool_object) ==
    Range(pool_object.pool) \cup pool_object.checked_out_connections

\* The counters and collections of a pool object agree with each other.
Consistent(pool_object) ==
    /\ pool_object.active_connections =
           Cardinality(pool_object.checked_out_connections)
    /\ Range(pool_object.pool) \cap pool_object.checked_out_connections = {}
    /\ Cardinality(Range(pool_object.pool)) = Len(pool_object.pool)
    /\ Len(pool_object.pool)
           + Cardinality(pool_object.checked_out_connections)
           <= ConnectionLimit

\* The step is an acquire or a release against `p`, which is not (or no
\* longer) the pool a finished initialization would leave.
OldPoolStep(p) ==
    /\ manager'.last # manager.last
    /\ manager'.last.op \in {"get_connection", "release_connection"}
    /\ manager'.last.target = p
    /\ p # NoPool
    /\ manager.call # NoCall_ \/ p # manager.pool

\* C34: when initialize_default(config) returns, the manager's pool is a new
\* pool object built from config, holding connection_limit fresh open
\* connections, and every connection the previous pool had, free or checked
\* out, was closed and the previous pool has none left; an acquire or release
\* that runs against the old pool meanwhile returns or raises (it does not
\* block for ever) and changes no other pool; and every pool object's
\* bookkeeping stays consistent, no connection being known to two pools.
C34_ReinitializationReplacesPool ==
    [][/\ BeginStep /\ manager.pool # NoPool =>
              ConnsOf(PoolObject(manager.pool)) \subseteq manager'.closed
       /\ ReturnStep =>
              /\ manager'.pool = Len(manager.pools) + 1
              /\ manager'.config = manager.call.config
              /\ manager'.pools[manager'.pool].config = manager.call.config
              /\ Len(manager'.pools[manager'.pool].pool) = ConnectionLimit
              /\ Range(manager'.pools[manager'.pool].pool)
                     \cap (manager'.closed \cup (0..manager.created)) = {}
              /\ manager.pool # NoPool =>
                     ConnsOf(manager'.pools[manager.pool]) = {}
       /\ \A p \in 1..Len(manager.pools) :
              OldPoolStep(p) =>
                  /\ manager'.last.result # "blocked"
                  /\ \A q \in 1..Len(manager.pools) :
                         q # p => manager'.pools[q] = manager.pools[q]
       /\ \A p \in 1..Len(manager'.pools) :
              /\ Consistent(manager'.pools[p])
              /\ \A q \in 1..Len(manager'.pools) :
                     q # p => ConnsOf(manager'.pools[p])
                                \cap ConnsOf(manager'.pools[q]) = {}]_vars

\* a second pool was built while a connection of the first was checked out,
\* and an acquire against the first pool then timed out
C34_Witness ==
    /\ manager.pool = 2
    /\ manager.call = NoCall_
    /\ manager.torn # {}
    /\ manager.last.op = "get_connection"
    /\ manager.last.target = 1
    /\ manager.last.result = "timeout"
    /\ Len(PoolObject(2).pool) = ConnectionLimit

\* C35 (as claimed): get_connection and release_connection of a manager that
\* has no pool raise, create no connection and leave the manager as it was.
C35_UninitializedCallsFail ==
    [][(/\ ManagerStep("get_connection")
           \/ ManagerStep("release_connection")
        /\ manager'.last.target = NoPool) =>
           /\ manager'.last.result = "not_initialized"
           /\ manager' = [manager EXCEPT !.last = manager'.last]]_vars

\* The step releases a connection that was checked out when its pool was
\* torn down.
TornReleaseStep ==
    /\ ManagerStep("release_connection")
    /\ manager'.last.conn \in manager.torn

\* C38: a connection that was checked out when its pool was torn down (by
\* initialize_default, close_all or a rebuild) is in no pool's free queue and
\* in no pool's checked-out set afterwards, and releasing it is ignored: no
\* pool object changes.
C38_TornConnectionStaysOut ==
    [][/\ TornReleaseStep =>
              /\ manager'.last.result \in {"ignored", "none"}
              /\ manager'.pools = manager.pools
       /\ \A p \in 1..Len(manager'.pools) :
              ConnsOf(manager'.pools[p]) \cap manager'.torn = {}]_vars

\* a connection of the first pool, held across the re-initialization, was
\* released to the second pool while that had a connection checked out
C38_Witness ==
    /\ manager.pool = 2
    /\ manager.last.op = "release_connection"
    /\ manager.last.target = 2
    /\ manager.last.conn \in manager.torn
    /\ manager.last.result = "ignored"
    /\ PoolObject(2).active_connections = 1

\* C39 (as claimed): between calls, the pool the manager has was built from
\* the configuration the manager has, and an initialize_default that closed
\* the manager's pool does not end with that pool still in place.
C39_PoolMatchesConfiguration ==
    [][(manager'.call = NoCall_ /\ manager'.pool # NoPool) =>
           /\ manager'.pools[manager'.pool].config = manager'.config
           /\ (manager.call # NoCall_ /\ manager.pool # NoPool) =>
                  manager'.pool # manager.pool]_vars

\* the position of the first `event` in the request's history, 0 if none
RECURSIVE FirstAt(_, _, _)
FirstAt(calls, event, i) ==
    IF i > Len(calls) THEN 0
    ELSE IF calls[i] = event THEN i
    ELSE FirstAt(calls, event, i + 1)

At(event) == FirstAt(trace.calls, event, 1)

\* the request goes through `earlier` before `later`, if it gets to `later`
Before(earlier, later) ==
    At(later) # 0 => (At(earlier) # 0 /\ At(earlier) < At(later))

\* the request holds a connection of the manager's pool
HoldsConnection ==
    /\ trace.handler \in {"execute_query", "stream_query"}
    /\ trace.conn # Foreign

\* the permissions refuse the request's statement for one of its schemas
NotPermitted ==
    /\ _extract_operation_type(query) # None
    /\ \E s \in schemas_or(_extract_schemas(query), "") :
           ~is_operation_allowed(config, s, _extract_operation_type(query))

=============================================================================
